---- MODULE Spec2Model ----
(***************************************************************************)
(* Verification model of the illumos-installer workspace:                  *)
(*   - the convergence primitives of libinstall/src/ensure.rs,             *)
(*   - the keyword compilers of libsysconfig and libinstall,               *)
(*   - the sysconfig run (parse, compile, apply through the driver).       *)
(* Each part has its own specification (SpecEnsure, SpecCompile, ...) over *)
(* the shared variables; the variables of the other parts stay idle.       *)
(***************************************************************************)
EXTENDS Integers, Sequences, FiniteSets, TLC

VARIABLES
    fs,         \* ensure: path -> filesystem entry (lstat view of the target)
    last,       \* ensure: record of the last call of a primitive
    repeated,   \* ensure: the last call repeats the successful call before it
    chain,      \* ensure: progress of the create / repeat / change scenario
    doc,        \* the configuration document that is read
    result,     \* what the parser, then the keyword compiler, returned
    stage,      \* position of the program: "input", "parsed", "compiled", ...
    cli,        \* run: the command line and environment of sysconfig
    img,        \* run: the Image (root_path, driver) the instructions go to
    idx,        \* run: index of the next instruction of the apply loop
    applied,    \* run: the instructions applied so far, with what each did
    finished,   \* run: the SMF property config/finished
    exit,       \* run: how the program ended ("" while it runs)
    zp,         \* zfs: the call of pool_export in progress
    sh,         \* libshadow: the shadow file text, the ShadowFile and the call
    ini         \* set_locale: /etc/default/init and the call in progress

ensureVars == <<fs, last, repeated, chain>>

compileVars == <<doc, result, stage>>

runVars == <<cli, img, idx, applied, finished, exit>>

zfsVars == <<zp>>

libVars == <<sh, ini>>

vars == <<fs, last, repeated, chain, doc, result, stage, cli, img, idx, applied, finished, exit, zp,
          sh, ini>>

(***************************************************************************)
(* Part 1: libinstall/src/ensure.rs                                        *)
(***************************************************************************)

\* Owner and group ids 0..MaxId.
MaxId == 1

Ids == 0..MaxId

\* 0o644 and 0o755, the permission bits that occur (st_mode & 0o7777).
Modes == {420, 493}

Contents == {"hello", "world"}

Targets == {"t1", "t2"}

\* FileType of ensure.rs, plus what lstat shows that check() does not accept
\* (a device, a fifo, a socket) and the absent entry (ENOENT).
FileTypes == {"Directory", "File", "Link"}

Absent == [t |-> "Absent", perms |-> 0, owner |-> 0, group |-> 0, data |-> ""]

Entry(t, perms, owner, group, data) ==
    [t |-> t, perms |-> perms, owner |-> owner, group |-> group, data |-> data]

\* The states a path can be in before the first call.
Entries ==
    {Absent}
    \cup {Entry("Other", m, 0, 0, "") : m \in Modes}
    \cup {Entry("Directory", m, o, g, "") : m \in Modes, o \in Ids, g \in Ids}
    \cup {Entry("File", m, o, g, c) : m \in Modes, o \in Ids, g \in Ids, c \in Contents}
    \cup {Entry("Link", 511, o, g, t) : o \in Ids, g \in Ids, t \in Targets}

\* The source of ensure::file: absent, or a regular file.
SrcEntries ==
    {Absent} \cup {Entry("File", m, 0, 0, c) : m \in {420}, c \in Contents}

\* What the kernel gives a new entry: the mode left by the umask, and the ids
\* of the calling process (the installer runs as root).
Creds == [mode : Modes, uid : {0}, gid : {0}]

\* The result of a primitive: Ok(did_work) or Err, the filesystem it leaves
\* and the system calls that changed it.
Res(ok, did_work, f, effects) ==
    [ok |-> ok, did_work |-> did_work, fs |-> f, effects |-> effects]

\* ensure::check: Err for a type it does not know, None for ENOENT.
check(f, p) ==
    IF f[p].t = "Other" THEN [ok |-> FALSE, fi |-> Absent]
    ELSE [ok |-> TRUE, fi |-> f[p]]

\* std::fs::remove_file: unlink(2) refuses a directory.
remove_file(f, p) ==
    IF f[p].t \in {"File", "Link", "Other"}
    THEN [ok |-> TRUE, fs |-> [f EXCEPT ![p] = Absent]]
    ELSE [ok |-> FALSE, fs |-> f]

\* perms without the exemption of symbolic links: chmod(2) follows the link,
\* so the link's own mode never becomes the requested one.
permsNoLinkExemption(f, p, owner, group, mode) ==
    LET c == check(f, p) IN
    IF ~c.ok \/ c.fi.t = "Absent" THEN Res(FALSE, FALSE, f, <<>>)
    ELSE
        LET doMod == c.fi.perms # mode
            f1 == IF doMod /\ c.fi.t # "Link" THEN [f EXCEPT ![p].perms = mode] ELSE f
            e1 == IF doMod THEN <<"chmod">> ELSE <<>>
            doOwn == ~(c.fi.owner = owner /\ c.fi.group = group)
            f2 == IF doOwn THEN [f1 EXCEPT ![p].owner = owner, ![p].group = group]
                  ELSE f1
            e2 == IF doOwn THEN e1 \o <<"chown">> ELSE e1
        IN Res(TRUE, doMod \/ doOwn, f2, e2)

\* perms that hands the ownership to lchown every time, without a look at
\* the owner and group the path has.
permsAlwaysChown(f, p, owner, group, mode) ==
    LET c == check(f, p) IN
    IF ~c.ok \/ c.fi.t = "Absent" THEN Res(FALSE, FALSE, f, <<>>)
    ELSE
        LET doMod == c.fi.t # "Link" /\ c.fi.perms # mode
            f1 == IF doMod THEN [f EXCEPT ![p].perms = mode] ELSE f
            e1 == IF doMod THEN <<"chmod">> ELSE <<>>
        IN Res(TRUE, TRUE, [f1 EXCEPT ![p].owner = owner, ![p].group = group],
               e1 \o <<"chown">>)

\* ensure::perms
perms(f, p, owner, group, mode) ==
    LET c == check(f, p) IN
    IF ~c.ok \/ c.fi.t = "Absent" THEN Res(FALSE, FALSE, f, <<>>)
    ELSE
        LET doMod == c.fi.t # "Link" /\ c.fi.perms # mode
            f1 == IF doMod THEN [f EXCEPT ![p].perms = mode] ELSE f
            e1 == IF doMod THEN <<"chmod">> ELSE <<>>
            doOwn == ~(c.fi.owner = owner /\ c.fi.group = group)
            f2 == IF doOwn THEN [f1 EXCEPT ![p].owner = owner, ![p].group = group]
                  ELSE f1
            e2 == IF doOwn THEN e1 \o <<"chown">> ELSE e1
        IN Res(TRUE, doMod \/ doOwn, f2, e2)

\* The tail shared by the primitives: `if perms(..)? { did_work = true }`.
Reconcile(f, p, owner, group, mode, did, effects) ==
    LET r == perms(f, p, owner, group, mode) IN
    Res(r.ok, r.ok /\ (did \/ r.did_work), r.fs, effects \o r.effects)

\* ensure::directory
directory(f, dir, owner, group, mode, cred) ==
    LET c == check(f, dir) IN
    IF ~c.ok THEN Res(FALSE, FALSE, f, <<>>)
    ELSE IF c.fi.t # "Absent" THEN
        IF c.fi.t # "Directory" THEN Res(FALSE, FALSE, f, <<>>)
        ELSE Reconcile(f, dir, owner, group, mode, FALSE, <<>>)
    ELSE
        LET f1 == [f EXCEPT ![dir] = Entry("Directory", cred.mode, cred.uid, cred.gid, "")]
        IN Reconcile(f1, dir, owner, group, mode, TRUE, <<"mkdir">>)

\* ensure::comparestr: the bytes of dst against the string.
comparestr(src, f, dst) == f[dst].data = src

\* ensure::compare: byte by byte, src against dst; Err when src cannot be opened.
compare(f, src, dst) ==
    IF f[src].t # "File" THEN [ok |-> FALSE, eq |-> FALSE]
    ELSE [ok |-> TRUE, eq |-> f[src].data = f[dst].data]

\* The decision with no look at the type under Create::IfMissing: whatever
\* exists is kept.
DecideKeepAnyType(f, dst, create, same) ==
    LET c == check(f, dst) IN
    IF ~c.ok THEN [kind |-> "err", fs |-> f, effects |-> <<>>]
    ELSE IF c.fi.t = "Absent" THEN [kind |-> "copy", fs |-> f, effects |-> <<>>]
    ELSE IF create = "IfMissing" THEN [kind |-> "keep", fs |-> f, effects |-> <<>>]
    ELSE IF c.fi.t = "File" /\ same THEN [kind |-> "keep", fs |-> f, effects |-> <<>>]
    ELSE
        LET r == remove_file(f, dst) IN
        IF r.ok THEN [kind |-> "copy", fs |-> r.fs, effects |-> <<"unlink">>]
        ELSE [kind |-> "err", fs |-> f, effects |-> <<>>]

\* The `do_copy` decision shared by filestr and file: what the match on the
\* existing entry yields. same is the outcome of the content comparison.
\* kind: "err" (bail or failed unlink), "keep" (do_copy = false), "copy".
Decide(f, dst, create, same) ==
    LET c == check(f, dst) IN
    IF ~c.ok THEN [kind |-> "err", fs |-> f, effects |-> <<>>]
    ELSE IF c.fi.t = "Absent" THEN [kind |-> "copy", fs |-> f, effects |-> <<>>]
    ELSE IF create = "IfMissing" THEN
        IF c.fi.t \in {"File", "Link"} THEN [kind |-> "keep", fs |-> f, effects |-> <<>>]
        ELSE [kind |-> "err", fs |-> f, effects |-> <<>>]
    ELSE IF c.fi.t = "File" /\ same THEN [kind |-> "keep", fs |-> f, effects |-> <<>>]
    ELSE
        LET r == remove_file(f, dst) IN
        IF r.ok THEN [kind |-> "copy", fs |-> r.fs, effects |-> <<"unlink">>]
        ELSE [kind |-> "err", fs |-> f, effects |-> <<>>]

\* filestr that takes an existing regular file as correct without reading it.
filestrNoCompare(f, contents, dst, owner, group, mode, create, cred) ==
    LET d == Decide(f, dst, create, TRUE) IN
    IF d.kind = "err" THEN Res(FALSE, FALSE, d.fs, d.effects)
    ELSE IF d.kind = "keep" THEN Reconcile(d.fs, dst, owner, group, mode, FALSE, d.effects)
    ELSE
        LET f1 == [d.fs EXCEPT ![dst] = Entry("File", cred.mode, cred.uid, cred.gid, contents)]
        IN Reconcile(f1, dst, owner, group, mode, TRUE, d.effects \o <<"write">>)

\* ensure::filestr
filestr(f, contents, dst, owner, group, mode, create, cred) ==
    LET d == Decide(f, dst, create, comparestr(contents, f, dst)) IN
    IF d.kind = "err" THEN Res(FALSE, FALSE, d.fs, d.effects)
    ELSE IF d.kind = "keep" THEN Reconcile(d.fs, dst, owner, group, mode, FALSE, d.effects)
    ELSE
        LET f1 == [d.fs EXCEPT ![dst] = Entry("File", cred.mode, cred.uid, cred.gid, contents)]
        IN Reconcile(f1, dst, owner, group, mode, TRUE, d.effects \o <<"write">>)

\* ensure::file.  compare() runs only for Create::Always on a regular file;
\* std::fs::copy gives dst the bytes and the permission bits of src.
file(f, src, dst, owner, group, mode, create, cred) ==
    LET needCmp == create = "Always" /\ f[dst].t = "File"
        cmp == compare(f, src, dst)
    IN
    IF needCmp /\ ~cmp.ok THEN Res(FALSE, FALSE, f, <<>>)
    ELSE
        LET d == Decide(f, dst, create, cmp.eq) IN
        IF d.kind = "err" THEN Res(FALSE, FALSE, d.fs, d.effects)
        ELSE IF d.kind = "keep" THEN Reconcile(d.fs, dst, owner, group, mode, FALSE, d.effects)
        ELSE IF d.fs[src].t # "File" THEN Res(FALSE, FALSE, d.fs, d.effects)
        ELSE
            LET f1 == [d.fs EXCEPT ![dst] =
                          Entry("File", d.fs[src].perms, cred.uid, cred.gid, d.fs[src].data)]
            IN Reconcile(f1, dst, owner, group, mode, TRUE, d.effects \o <<"copy">>)

\* ensure::symlink
symlink(f, dst, target, owner, group, cred) ==
    LET c == check(f, dst) IN
    IF ~c.ok THEN Res(FALSE, FALSE, f, <<>>)
    ELSE IF c.fi.t = "Link" /\ c.fi.data = target THEN
        Reconcile(f, dst, owner, group, 0, FALSE, <<>>)
    ELSE
        LET r == IF c.fi.t = "Absent" THEN [ok |-> TRUE, fs |-> f] ELSE remove_file(f, dst)
            e == IF c.fi.t = "Absent" THEN <<>> ELSE <<"unlink">>
        IN
        IF ~r.ok THEN Res(FALSE, FALSE, f, <<>>)
        ELSE
            LET f1 == [r.fs EXCEPT ![dst] = Entry("Link", 511, cred.uid, cred.gid, target)]
            IN Reconcile(f1, dst, owner, group, 0, TRUE, e \o <<"symlink">>)

\* removed without the match on the file type: whatever is at the path goes.
removedAnyType(f, dst) ==
    LET c == check(f, dst) IN
    IF ~c.ok THEN Res(FALSE, FALSE, f, <<>>)
    ELSE IF c.fi.t = "Absent" THEN Res(TRUE, FALSE, f, <<>>)
    ELSE Res(TRUE, FALSE, [f EXCEPT ![dst] = Absent], <<"unlink">>)

\* ensure::removed
removed(f, dst) ==
    LET c == check(f, dst) IN
    IF ~c.ok THEN Res(FALSE, FALSE, f, <<>>)
    ELSE IF c.fi.t = "Absent" THEN Res(TRUE, FALSE, f, <<>>)
    ELSE IF c.fi.t \in {"File", "Link"} THEN
        Res(TRUE, FALSE, [f EXCEPT ![dst] = Absent], <<"unlink">>)
    ELSE Res(FALSE, FALSE, f, <<>>)

\* One call of a primitive, as the caller wrote it.
CallRec(op, contents, target, owner, group, mode, create) ==
    [op |-> op, contents |-> contents, target |-> target, owner |-> owner,
     group |-> group, mode |-> mode, create |-> create]

NoCall == [call |-> CallRec("none", "", "", 0, 0, 0, ""), ok |-> FALSE,
           did_work |-> FALSE, effects |-> <<>>, before |-> Absent, after |-> Absent]

\* Progress of the scenario: 1 after a filestr(Always) that found dst absent,
\* 2 after the identical call repeated at once, 3 after a following call that
\* differs in the contents only.
NextChain(call, r, before) ==
    IF call.op = "filestr" /\ call.create = "Always" /\ before.t = "Absent" THEN 1
    ELSE IF chain = 1 /\ call = last.call THEN 2
    ELSE IF chain = 2 /\ call.contents # last.call.contents
            /\ call = [last.call EXCEPT !.contents = call.contents] THEN 3
    ELSE 0

Record(call, r) ==
    /\ fs' = r.fs
    /\ repeated' = IF last.ok /\ call = last.call
                   THEN (IF last.did_work THEN "after_work" ELSE "after_noop")
                   ELSE "no"
    /\ last' = [call |-> call, ok |-> r.ok, did_work |-> r.did_work,
                effects |-> r.effects, before |-> fs["dst"], after |-> r.fs["dst"]]
    /\ chain' = NextChain(call, r, fs["dst"])
    /\ UNCHANGED <<compileVars, runVars, zfsVars, libVars>>

CallDirectory ==
    \E o \in Ids, g \in Ids, m \in Modes, cred \in Creds :
        Record(CallRec("directory", "", "", o, g, m, ""),
               directory(fs, "dst", o, g, m, cred))

CallFilestr ==
    \E c \in Contents, o \in Ids, g \in Ids, m \in Modes,
       cr \in {"IfMissing", "Always"}, cred \in Creds :
        Record(CallRec("filestr", c, "", o, g, m, cr),
               filestr(fs, c, "dst", o, g, m, cr, cred))

CallFile ==
    \E o \in Ids, g \in Ids, m \in Modes, cr \in {"IfMissing", "Always"}, cred \in Creds :
        Record(CallRec("file", "", "", o, g, m, cr),
               file(fs, "src", "dst", o, g, m, cr, cred))

CallSymlink ==
    \E t \in Targets, o \in Ids, g \in Ids, cred \in Creds :
        Record(CallRec("symlink", "", t, o, g, 0, ""),
               symlink(fs, "dst", t, o, g, cred))

CallRemoved ==
    Record(CallRec("removed", "", "", 0, 0, 0, ""), removed(fs, "dst"))

IdleCompile == doc = <<>> /\ result = <<>> /\ stage = "idle"

\* No call of pool_export is under way.
IdleZfs == zp = [pc |-> "idle", name |-> "", attempts |-> 0, naps |-> 0, nap |-> 0,
                 stderr |-> <<>>, ret |-> ""]

\* No call into libshadow or of set_locale is under way.
IdleLib == sh = <<>> /\ ini = <<>>

NoImage == [root_path |-> "", driver |-> "None"]

IdleRun ==
    /\ cli = <<>>
    /\ img = NoImage
    /\ idx = 0
    /\ applied = <<>>
    /\ finished = ""
    /\ exit = ""

InitEnsure ==
    /\ IdleCompile
    /\ IdleRun
    /\ IdleZfs
    /\ IdleLib
    /\ fs \in [{"dst", "src"} -> Entries \cup SrcEntries]
    /\ fs["dst"] \in Entries
    /\ fs["src"] \in SrcEntries
    /\ last = NoCall
    /\ repeated = "no"
    /\ chain = 0

NextEnsure ==
    \/ CallDirectory
    \/ CallFilestr
    \/ CallFile
    \/ CallSymlink
    \/ CallRemoved

SpecEnsure == InitEnsure /\ [][NextEnsure]_vars

\* C1: filestr(contents, dst, owner, group, mode, Always) on an absent dst
\* creates a regular file with exactly the contents, mode, owner and group
\* and returns did_work = true; the identical call repeated at once returns
\* did_work = false and changes nothing; a following call with other contents
\* unlinks and rewrites the file and returns did_work = true.
C1_FilestrCreateRepeatChange ==
    LET c == last.call
        want == Entry("File", c.mode, c.owner, c.group, c.contents)
    IN
    /\ chain = 1 => /\ last.ok /\ last.did_work
                    /\ last.after = want
                    /\ last.effects[1] = "write"
    /\ chain = 2 => /\ last.ok /\ ~last.did_work
                    /\ last.effects = <<>>
                    /\ last.after = last.before
                    /\ last.after = want
    /\ chain = 3 => /\ last.ok /\ last.did_work
                    /\ SubSeq(last.effects, 1, 2) = <<"unlink", "write">>
                    /\ last.before.data # c.contents
                    /\ last.after = want

C1_Witness ==
    /\ chain = 3
    /\ last.call = CallRec("filestr", "world", "", 0, 0, 420, "Always")
    /\ last.before = Entry("File", 420, 0, 0, "hello")

IdempotentOps(c) ==
    \/ c.op \in {"directory", "symlink"}
    \/ c.op = "file" /\ c.create = "Always"

\* C2: for directory, file (Create::Always) and symlink, a call that repeats
\* the successful call before it with identical arguments returns
\* did_work = false and leaves type, content or link target, mode, owner and
\* group of the entry as the first call left them.
C2_Idempotent ==
    (repeated # "no" /\ IdempotentOps(last.call)) =>
        /\ last.ok
        /\ ~last.did_work
        /\ last.effects = <<>>
        /\ last.after = last.before
        /\ fs["dst"] = last.before

C2_Witness ==
    /\ repeated = "after_work"
    /\ last.call.op = "symlink"
    /\ last.ok /\ ~last.did_work
    /\ last.after = Entry("Link", 511, 1, 1, "t2")

(***************************************************************************)
(* Part 2: libcfgparser (parse_config) and the keyword compilers           *)
(* (libsysconfig::parse_keywords, libinstall::parse_keywords)              *)
(***************************************************************************)

IdleEnsure ==
    /\ fs = [p \in {"dst", "src"} |-> Absent]
    /\ last = NoCall
    /\ repeated = "no"
    /\ chain = 0

\* One `--name=value` of a line, as the grammar yields it (Config::Argument).
Opt(k, v) == [k |-> k, v |-> v]

\* One line of the document (Config::Instruction): the command word, its
\* `--name=value` pairs in the order written, its positional arguments.
Line(name, opts, args) == [name |-> name, opts |-> opts, args |-> args]

EmptyMap == [k \in {} |-> ""]

\* Option<HashMap<String, String>> of a Keyword.
NoOptions == [some |-> FALSE, m |-> EmptyMap]

SomeOptions(m) == [some |-> TRUE, m |-> m]

\* libcfgparser::Keyword
Keyword(name, options, arguments) ==
    [name |-> name, options |-> options, arguments |-> arguments]

RECURSIVE InsertOptionsLastWins(_, _)
\* The option loop with a plain insert: a later pair replaces an earlier one.
InsertOptionsLastWins(o, m) ==
    IF o = <<>> THEN m
    ELSE LET h == Head(o)
             rest == [k \in (DOMAIN m) \ {h.k} |-> m[k]]
         IN InsertOptionsLastWins(Tail(o), rest @@ (h.k :> h.v))

RECURSIVE InsertOptions(_, _)
\* The option loop of parse_config: `if !m.contains_key(&key) { m.insert(..) }`.
InsertOptions(o, m) ==
    IF o = <<>> THEN m
    ELSE LET h == Head(o) IN
         InsertOptions(Tail(o), IF h.k \in DOMAIN m THEN m ELSE m @@ (h.k :> h.v))

\* The body of parse_config's loop for one Config::Instruction.
KeywordOfLine(l) ==
    Keyword(l.name,
            IF l.opts = <<>> THEN NoOptions ELSE SomeOptions(InsertOptions(l.opts, EmptyMap)),
            l.args)

\* Results of parsing and of compiling.
Failure(kind, err, name, key) ==
    [kind |-> kind, set |-> <<>>, err |-> err, name |-> name, key |-> key]

Success(set) == [kind |-> "Ok", set |-> set, err |-> "", name |-> "", key |-> ""]

Panic == Failure("Panic", "index out of bounds", "", "")

\* SysConfigParser::parse_config: the pest parse fails as a whole, or every
\* line becomes a Keyword.  Nothing is looked up in self.keywords.
parse_config(d) ==
    IF ~d.syntax_ok THEN Failure("Err", "Syntax", "", "")
    ELSE Success([i \in 1..Len(d.lines) |-> KeywordOfLine(d.lines[i])])

\* The characters of the strings whose content the compilers look into;
\* any other string is taken as one opaque character.
StrTable ==
    ("en_US.UTF-8" :> <<"e", "n", "_", "U", "S", ".", "U", "T", "F", "-", "8">>)
    @@ ("$6$abc$def" :> <<"$", "6", "$", "a", "b", "c", "$", "d", "e", "f">>)
    @@ ("fe80::1" :> <<"f", "e", "8", "0", ":", ":", "1">>)
    @@ ("a1" :> <<"a", "1">>)
    @@ ("rpool@snap" :> <<"r", "p", "o", "o", "l", "@", "s", "n", "a", "p">>)
    @@ ("C" :> <<"C">>)
    @@ ("C.utf-8" :> <<"C", ".", "u", "t", "f", "-", "8">>)
    @@ ("C.ISO8859-1" :> <<"C", ".", "I", "S", "O", "8", "8", "5", "9", "-", "1">>)
    @@ ("UTF-8.C" :> <<"U", "T", "F", "-", "8", ".", "C">>)
    @@ ("$x$abc" :> <<"$", "x", "$", "a", "b", "c">>)
    @@ ("$6$salt$Xq3" :> <<"$", "6", "$", "s", "a", "l", "t", "$", "X", "q", "3">>)
    @@ ("$6$salt$k9Z" :> <<"$", "6", "$", "s", "a", "l", "t", "$", "k", "9", "Z">>)

Chars(s) == IF s \in DOMAIN StrTable THEN StrTable[s] ELSE <<s>>

\* str::contains for a pattern given by its characters.
Contains(s, pat) ==
    LET c == Chars(s) IN
    \E i \in 0..(Len(c) - Len(pat)) : SubSeq(c, i + 1, i + Len(pat)) = pat

\* The regular expression ^\$\d\$ of the root_password branch.
IsHashPrefix(s) ==
    LET c == Chars(s) IN
    Len(c) >= 3 /\ c[1] = "$" /\ c[2] \in {"0", "1", "2", "3", "4", "5", "6", "7", "8", "9"} /\ c[3] = "$"

\* libsysconfig::get_supported_keywords: keyword -> allowed option names.
get_supported_keywords ==
    ("keyboard" :> {})
    @@ ("timezone" :> {})
    @@ ("terminal" :> {})
    @@ ("timeserver" :> {})
    @@ ("system_locale" :> {})
    @@ ("network_interface" :> {"name", "static", "static6", "primary"})
    @@ ("dataset" :>
          {"aclinherit", "aclmode", "atime", "canmount", "checksum", "compression",
           "copies", "devices", "encryption", "keyformat", "keylocation", "exec",
           "filesystem_limit", "special_small_blocks", "mountpoint", "nbmand",
           "pbkdf2iters", "primarycache", "quota", "snapshot_limit", "readonly",
           "recordsize", "redundant_metadata", "refquota", "refreservation",
           "reservation", "secondarycache", "setuid", "sharesmb", "sharenfs",
           "logbias", "snapdir", "sync", "vscan", "xattr", "casesensitivity",
           "normalization", "utf8only"})
    @@ ("setup_dns" :> {"search", "domain"})
    @@ ("route" :> {})
    @@ ("root_password" :> {})

\* The order in which a HashMap hands out its keys is not specified: the
\* keys are taken along KeyOrder, forwards or backwards.
KeyOrder ==
    <<"bogus_opt", "name", "label", "module", "prompt", "type", "static", "static6",
      "primary", "domain", "search", "mountpoint", "compression", "ashift", "uefi",
      "be_name", "pool", "failmode">>

\* The key a `for (key, value) in opts` loop reaches first among keys.
FirstKey(keys, ho) ==
    LET pos(k) == CHOOSE j \in 1..Len(KeyOrder) : KeyOrder[j] = k
        rank(k) == IF ho = "fwd" THEN pos(k) ELSE Len(KeyOrder) + 1 - pos(k)
    IN CHOOSE k \in keys : \A o \in keys : rank(k) <= rank(o)

OptGet(options, k) ==
    IF options.some /\ k \in DOMAIN options.m
    THEN [some |-> TRUE, v |-> options.m[k]]
    ELSE [some |-> FALSE, v |-> ""]

\* The "terminal" branch of libsysconfig::parse_keywords.
CompileTerminal(c, ho) ==
    LET unknown == IF c.options.some THEN (DOMAIN c.options.m) \ {"name", "label", "module", "prompt", "type"} ELSE {}
        ty == OptGet(c.options, "type")
    IN
    IF unknown # {} THEN
        Failure("Err", "UnknownOptionInInstruction", c.name, FirstKey(unknown, ho))
    ELSE IF (~ty.some \/ ty.v = "") /\ c.arguments = <<>> THEN Panic
    ELSE Success(<<[t |-> "SetupTerminal",
                    name |-> OptGet(c.options, "name"),
                    label |-> OptGet(c.options, "label"),
                    modules |-> OptGet(c.options, "module"),
                    prompt |-> OptGet(c.options, "prompt"),
                    terminal_type |-> IF ty.some /\ ty.v # "" THEN ty.v
                                      ELSE c.arguments[1]]>>)

NoNet == [t |-> "None", addr |-> ""]

\* The "network_interface" branch.
CompileNetworkInterface(c) ==
    LET o == c.options
        st == OptGet(o, "static")
        st6 == OptGet(o, "static6")
        ip == IF ~o.some THEN <<NoNet, NoNet>>
              ELSE IF st.some THEN
                  IF Contains(st.v, <<":">>) THEN <<NoNet, [t |-> "Static", addr |-> st.v]>>
                  ELSE IF st6.some THEN
                      <<[t |-> "Static", addr |-> st.v], [t |-> "Static", addr |-> st6.v]>>
                  ELSE <<[t |-> "Static", addr |-> st.v], NoNet>>
              ELSE IF st6.some THEN <<NoNet, [t |-> "Static", addr |-> st6.v]>>
              ELSE <<[t |-> "DHCP", addr |-> ""], [t |-> "DHCPStateful", addr |-> ""]>>
    IN
    IF c.arguments = <<>> THEN Panic
    ELSE Success(<<[t |-> "ConfigureNetworkAdapter",
                    device |-> c.arguments[1],
                    name |-> OptGet(o, "name"),
                    ipv4 |-> ip[1],
                    ipv6 |-> ip[2],
                    primary |-> o.some /\ "primary" \in DOMAIN o.m]>>)

UpperChar(ch) ==
    CASE ch = "u" -> "U" [] ch = "t" -> "T" [] ch = "f" -> "F"
      [] ch = "e" -> "E" [] ch = "n" -> "N" [] ch = "s" -> "S"
      [] OTHER -> ch

\* The branch with one test on the name as it is written: a '.' and no
\* "UTF-8" after it or before it.
CompileSystemLocaleAsWritten(c) ==
    IF c.arguments = <<>> THEN Panic
    ELSE
        LET n == c.arguments[1] IN
        Success(<<[t |-> "SetLocale", name |-> n,
                   unicode |-> ~(Contains(n, <<".">>)
                                 /\ ~Contains(n, <<"U", "T", "F", "-", "8">>))]>>)

\* The "system_locale" branch.
CompileSystemLocale(c) ==
    IF c.arguments = <<>> THEN Panic
    ELSE
        LET n == c.arguments[1]
            up == [i \in 1..Len(Chars(n)) |-> UpperChar(Chars(n)[i])]
            utf == \E i \in 0..(Len(up) - 6) :
                       SubSeq(up, i + 1, i + 6) = <<".", "U", "T", "F", "-", "8">>
            unicode == IF utf THEN TRUE ELSE IF Contains(n, <<".">>) THEN FALSE ELSE TRUE
        IN Success(<<[t |-> "SetLocale", name |-> n, unicode |-> unicode]>>)

\* The branch without the test on the number of arguments.
CompileRouteTwoArgsOnly(c) ==
    LET a == c.arguments IN
    IF Len(a) < 2 THEN Panic
    ELSE Success(<<[t |-> "AddRoute", name |-> a[1], route_match |-> a[1], gateway |-> a[2]]>>)

\* The "route" branch.
CompileRoute(c) ==
    LET a == c.arguments IN
    IF Len(a) > 2 THEN
        Success(<<[t |-> "AddRoute", name |-> a[1], route_match |-> a[2], gateway |-> a[3]]>>)
    ELSE IF Len(a) < 2 THEN Panic
    ELSE Success(<<[t |-> "AddRoute", name |-> a[1], route_match |-> a[1], gateway |-> a[2]]>>)

\* libshadow::gen_password_hash: a sha512-crypt hash of the cleartext.
\* pwhash::sha512_crypt::hash gives "$6$", a salt, "$" and the digest of
\* salt and password; it fails when the random number generator of the
\* system cannot be opened.
gen_password_hash(clear, rng_ok) ==
    IF ~rng_ok THEN [ok |-> FALSE, v |-> ""]
    ELSE [ok |-> TRUE,
          v |-> "$6$salt$" \o (IF clear = "a1" THEN "Xq3" ELSE "k9Z")]

\* The branch handing the first argument on as the hash, whatever it is.
CompileRootPasswordNoHash(c, rng_ok) ==
    IF c.arguments = <<>> THEN Panic
    ELSE Success(<<[t |-> "SetRootPassword", tp |-> "Hash", v |-> c.arguments[1]]>>)

\* The "root_password" branch.
CompileRootPassword(c, rng_ok) ==
    IF c.arguments = <<>> THEN Panic
    ELSE IF IsHashPrefix(c.arguments[1]) THEN
        Success(<<[t |-> "SetRootPassword", tp |-> "Hash", v |-> c.arguments[1]]>>)
    ELSE
        LET h == gen_password_hash(c.arguments[1], rng_ok) IN
        IF ~h.ok THEN Failure("Err", "RandomError", c.name, "")
        ELSE Success(<<[t |-> "SetRootPassword", tp |-> "Hash", v |-> h.v]>>)

\* A branch that only takes arguments[0].
CompileFirstArg(c, tag) ==
    IF c.arguments = <<>> THEN Panic
    ELSE Success(<<[t |-> tag, v |-> c.arguments[1]]>>)

\* What a compilation depends on besides its input: the order in which a
\* HashMap hands out its keys, and whether pwhash can open the random number
\* generator.
Envs == [order : {"fwd", "rev"}, rng_ok : BOOLEAN]

\* One iteration of the loop of libsysconfig::parse_keywords: the match on
\* c.name.  The instruction it pushes, or the error or panic that ends it.
CompileKeyword(c, env) ==
    CASE c.name = "keyboard" -> CompileFirstArg(c, "SetKeymap")
      [] c.name = "timezone" -> CompileFirstArg(c, "SetTimezone")
      [] c.name = "terminal" -> CompileTerminal(c, env.order)
      [] c.name = "timeserver" -> CompileFirstArg(c, "SetTimeServer")
      [] c.name = "network_interface" -> CompileNetworkInterface(c)
      [] c.name = "system_locale" -> CompileSystemLocale(c)
      [] c.name = "dataset" ->
            IF c.arguments = <<>> THEN Panic
            ELSE Success(<<[t |-> "CreateDataset", name |-> c.arguments[1],
                            properties |-> c.options]>>)
      [] c.name = "setup_dns" ->
            Success(<<[t |-> "SetupDNS", domain |-> OptGet(c.options, "domain"),
                       search |-> OptGet(c.options, "search"),
                       nameservers |-> c.arguments]>>)
      [] c.name = "route" -> CompileRoute(c)
      [] c.name = "root_password" -> CompileRootPassword(c, env.rng_ok)
      [] OTHER -> Failure("Err", "UnknownInstruction", c.name, "")

RECURSIVE ParseLoopSkipFailed(_, _, _)
\* The loop going on to the next record when one does not compile.
ParseLoopSkipFailed(keywords, set, env) ==
    IF keywords = <<>> THEN Success(set)
    ELSE
        LET r == CompileKeyword(Head(keywords), env) IN
        ParseLoopSkipFailed(Tail(keywords), IF r.kind = "Ok" THEN set \o r.set ELSE set, env)

RECURSIVE ParseLoop(_, _, _)
ParseLoop(keywords, set, env) ==
    IF keywords = <<>> THEN Success(set)
    ELSE
        LET r == CompileKeyword(Head(keywords), env) IN
        IF r.kind = "Ok" THEN ParseLoop(Tail(keywords), set \o r.set, env)
        ELSE r

\* libsysconfig::parse_keywords
parse_keywords(keywords, env) == ParseLoop(keywords, <<>>, env)

\* VDEVType of a group-type token; Empty for every other argument.
GroupType(opt) ==
    CASE opt = "mirror" -> "Mirror"
      [] opt \in {"raidz", "raidz1"} -> "RaidZ1"
      [] opt = "raidz2" -> "RaidZ2"
      [] opt = "raidz3" -> "RaidZ3"
      [] OTHER -> "Empty"

\* VDEVConfiguration; VDEVConfiguration::default() is Empty with no device.
VDEVConfiguration(t, devices) == [vdev_type |-> t, devices |-> devices]

\* The token branches without the reset of the group in progress.
VdevStepNoReset(st, opt) ==
    IF GroupType(opt) # "Empty" THEN
        IF st.cfg.vdev_type # "Empty"
        THEN [vdevs |-> Append(st.vdevs, st.cfg),
              cfg |-> [st.cfg EXCEPT !.vdev_type = GroupType(opt)]]
        ELSE [st EXCEPT !.cfg.vdev_type = GroupType(opt)]
    ELSE [st EXCEPT !.cfg.devices = Append(@, opt)]

\* One iteration (i > 0) of the argument loop of "zpool-create": a token
\* pushes the group in progress only when that group has a type, then sets
\* the type; any other argument is pushed to the group's devices.
VdevStep(st, opt) ==
    IF GroupType(opt) # "Empty" THEN
        IF st.cfg.vdev_type # "Empty"
        THEN [vdevs |-> Append(st.vdevs, st.cfg),
              cfg |-> VDEVConfiguration(GroupType(opt), <<>>)]
        ELSE [st EXCEPT !.cfg.vdev_type = GroupType(opt)]
    ELSE [st EXCEPT !.cfg.devices = Append(@, opt)]

RECURSIVE VdevLoop(_, _)
VdevLoop(args, st) ==
    IF args = <<>> THEN st ELSE VdevLoop(Tail(args), VdevStep(st, Head(args)))

\* The argument loop and the final vdevs.push(vdev_config.clone()).
Vdevs(arguments) ==
    LET st == VdevLoop(IF arguments = <<>> THEN <<>> ELSE Tail(arguments),
                       [vdevs |-> <<>>, cfg |-> VDEVConfiguration("Empty", <<>>)])
    IN Append(st.vdevs, st.cfg)

\* str::parse::<i32> on the strings the documents use.
I32Table == ("12" :> 12) @@ ("9" :> 9)

\* The filter of pool_options: k != "ashift" || k != "uefi".
PoolOptionKept(k) == (k # "ashift") \/ (k # "uefi")

\* The "zpool-create" branch of libinstall::parse_keywords.
CompileZpoolCreate(c) ==
    LET o == c.options
        has(k) == o.some /\ k \in DOMAIN o.m
        kept == {k \in DOMAIN o.m : PoolOptionKept(k)}
    IN
    IF has("ashift") /\ o.m["ashift"] \notin DOMAIN I32Table THEN
        Failure("Err", "ashift is not an integer", c.name, "ashift")
    ELSE Success(<<[t |-> "CreatePool",
                    name |-> IF c.arguments = <<>> THEN "" ELSE c.arguments[1],
                    vdevs |-> Vdevs(c.arguments),
                    ashift |-> IF has("ashift")
                               THEN [some |-> TRUE, v |-> I32Table[o.m["ashift"]]]
                               ELSE [some |-> FALSE, v |-> 0],
                    uefi |-> IF o.some THEN has("uefi") ELSE TRUE,
                    be_name |-> OptGet(o, "be_name"),
                    pool_options |-> IF o.some
                                     THEN SomeOptions([k \in kept |-> o.m[k]])
                                     ELSE NoOptions]>>)

\* One iteration of the loop of libinstall::parse_keywords.
InstallCompileKeyword(c) ==
    CASE c.name = "zpool-create" -> CompileZpoolCreate(c)
      [] c.name = "create_be" ->
            IF c.arguments = <<>> THEN Panic
            ELSE Success(<<[t |-> "CreateBootEnvironment",
                            pool_name |-> c.arguments[1],
                            name |-> IF Len(c.arguments) = 1
                                     THEN [some |-> FALSE, v |-> ""]
                                     ELSE [some |-> TRUE, v |-> c.arguments[2]]]>>)
      [] c.name \in {"image", "install_image"} ->
            IF c.arguments = <<>> THEN Panic
            ELSE Success(<<[t |-> "InstallImage",
                            src |-> c.arguments[1],
                            pool |-> IF OptGet(c.options, "pool").some
                                     THEN c.options.m["pool"] ELSE "rpool"]>>)
      [] c.name \in {"ds", "dataset"} ->
            IF c.arguments = <<>> THEN Panic
            ELSE Success(<<[t |-> "CreateDataset",
                            name |-> c.arguments[1],
                            properties |-> IF c.options.some THEN c.options.m
                                           ELSE EmptyMap]>>)
      [] OTHER -> Failure("Err", "UnknownInstruction", c.name, "")

RECURSIVE InstallParseLoop(_, _)
InstallParseLoop(keywords, set) ==
    IF keywords = <<>> THEN Success(set)
    ELSE
        LET r == InstallCompileKeyword(Head(keywords)) IN
        IF r.kind = "Ok" THEN InstallParseLoop(Tail(keywords), set \o r.set)
        ELSE r

\* libinstall::parse_keywords
install_parse_keywords(keywords) == InstallParseLoop(keywords, <<>>)

\* The zpool arguments create_pool builds from the vdevs, or its bail!.
RECURSIVE VdevArgs(_, _, _)
VdevArgs(vdevs, args, single_disk_added) ==
    IF vdevs = <<>> THEN [ok |-> TRUE, args |-> args]
    ELSE
        LET vdev == Head(vdevs) IN
        IF vdev.vdev_type = "Empty" THEN
            IF Len(vdev.devices) # 1 \/ single_disk_added
            THEN [ok |-> FALSE, args |-> <<>>]
            ELSE VdevArgs(Tail(vdevs), Append(args, vdev.devices[1]), TRUE)
        ELSE
            VdevArgs(Tail(vdevs),
                     args \o <<CASE vdev.vdev_type = "Mirror" -> "mirror"
                                 [] vdev.vdev_type = "RaidZ1" -> "raidz1"
                                 [] vdev.vdev_type = "RaidZ2" -> "raidz2"
                                 [] OTHER -> "raidz3">> \o vdev.devices,
                     single_disk_added)

\* installer_pool_name and installer_altroot
installer_pool_name(name) == "INSTALLER-" \o name

installer_altroot(name) == "/altroot-" \o name

\* The argument vector of create_pool up to the vdevs: the options come out
\* of pool_options in the order ho of the keys.
RECURSIVE PoolOptionArgs(_, _)
PoolOptionArgs(m, ho) ==
    IF DOMAIN m = {} THEN <<>>
    ELSE LET k == FirstKey(DOMAIN m, ho) IN
         <<"-o", k \o "=" \o m[k]>> \o PoolOptionArgs([x \in (DOMAIN m) \ {k} |-> m[x]], ho)

\* create_pool up to illumos::run: the zpool command line, or the bail! on
\* an untyped group that is not one single disk.
create_pool(ins, ho) ==
    LET head == <<"/sbin/zpool", "create", "-d", "-t", installer_pool_name(ins.name),
                  "-O", "compression=on", "-R", installer_altroot(ins.name)>>
                \o (IF ins.uefi THEN <<"-B">> ELSE <<>>)
                \o (IF ins.ashift.some
                    THEN <<"-o", "ashift=" \o ToString(ins.ashift.v)>> ELSE <<>>)
                \o <<ins.name>>
                \o (IF ins.pool_options.some
                    THEN PoolOptionArgs(ins.pool_options.m, ho) ELSE <<>>)
        v == VdevArgs(ins.vdevs, head, FALSE)
    IN IF v.ok THEN Success(v.args)
       ELSE Failure("Err", "more than one single disk defined in pool", ins.name, "")

(***************************************************************************)
(* The documents the compilers are run on                                  *)
(***************************************************************************)

MaxRecords == 2

MaxOpts == 2

MaxArgs == 3

MaxVdevArgs == 4

SeqsUpTo(S, n) == UNION {[1..k -> S] : k \in 0..n}

\* A configuration file: which program reads it, its format, whether its
\* text is in the grammar, its lines; for the serde formats the instruction
\* set it holds.
Document(compiler, format, syntax_ok, lines, instrs) ==
    [compiler |-> compiler, format |-> format, syntax_ok |-> syntax_ok,
     lines |-> lines, instrs |-> instrs]

\* The keywords libinstall::parse_keywords has a branch for.
InstallKeywords == {"zpool-create", "create_be", "image", "install_image", "ds", "dataset"}

SupportedKeywords(compiler) ==
    IF compiler = "sysconfig" THEN DOMAIN get_supported_keywords ELSE InstallKeywords

UnknownNames == {"locale", "bogus_kw"}

\* Three lines per keyword: bare, with arguments, with an option no keyword has.
ShapeLines(names) ==
    UNION {{Line(n, <<>>, <<>>),
            Line(n, <<>>, <<"a1", "a2">>),
            Line(n, <<Opt("bogus_opt", "v1")>>, <<"a1", "a2">>)} : n \in names}

CompileDocs ==
    {Document(c, "custom", TRUE, l, <<>>) :
        c \in {"sysconfig"},
        l \in SeqsUpTo(ShapeLines(SupportedKeywords("sysconfig") \cup UnknownNames), MaxRecords)}
    \cup
    {Document(c, "custom", TRUE, l, <<>>) :
        c \in {"install"},
        l \in SeqsUpTo(ShapeLines(SupportedKeywords("install") \cup UnknownNames), MaxRecords)}
    \cup
    {Document(c, "custom", FALSE, <<>>, <<>>) : c \in {"sysconfig", "install"}}

\* The option names a line of the keyword is written with.
LineKeys(name) ==
    CASE name = "network_interface" -> {"name", "static", "static6", "primary", "bogus_opt"}
      [] name = "setup_dns" -> {"domain", "search", "bogus_opt"}
      [] name = "dataset" -> {"mountpoint", "compression", "bogus_opt"}
      [] name = "terminal" -> {"name", "type", "bogus_opt"}
      [] OTHER -> {"bogus_opt"}

OptionValues == {"v1", "fe80::1"}

FirstArgs(name) ==
    CASE name = "root_password" -> {"a1", "$x$abc", "$6$abc$def"}
      [] name = "system_locale" -> {"en_US.UTF-8", "C.utf-8", "C.ISO8859-1", "C", "UTF-8.C"}
      [] OTHER -> {"a1"}

ArgLists(name) ==
    {SubSeq(<<a, "a2", "a3", "a4", "a5">>, 1, n) :
        a \in FirstArgs(name), n \in 0..(IF name = "route" THEN MaxArgs + 1 ELSE MaxArgs)}

LineDocs ==
    UNION {{Document("sysconfig", "custom", TRUE, <<Line(n, o, a)>>, <<>>) :
               o \in SeqsUpTo({Opt(k, v) : k \in LineKeys(n), v \in OptionValues}, MaxOpts),
               a \in ArgLists(n)} :
           n \in SupportedKeywords("sysconfig") \cup {"locale"}}
    \cup {Document("sysconfig", "custom", FALSE, <<>>, <<>>)}

DevNames == <<"d1", "d2", "d3", "d4", "d5", "d6", "d7", "d8">>

GroupTokens == {"mirror", "raidz", "raidz1", "raidz2", "raidz3"}

\* The arguments after the pool name: "dev" stands for a device, which is
\* given the name of its rank among the devices.
NameDevices(x) ==
    [i \in 1..Len(x) |->
        IF x[i] = "dev"
        THEN DevNames[Cardinality({j \in 1..i : x[j] = "dev"})]
        ELSE x[i]]

Examples ==
    {<<"pool1", "mirror", "d1", "d2", "raidz1", "d3", "d4", "d5">>,
     <<"pool1", "d1", "mirror", "d2", "d3">>,
     <<"pool1", "d1", "d2">>}

PoolArgs ==
    {<<"pool1">> \o NameDevices(x) : x \in SeqsUpTo(GroupTokens \cup {"dev"}, MaxVdevArgs)}
    \cup Examples \cup {<<>>}

PoolOpts ==
    {<<>>,
     <<Opt("ashift", "12"), Opt("failmode", "continue")>>,
     <<Opt("ashift", "v1")>>}

PoolDocs ==
    {Document("install", "custom", TRUE, <<Line("zpool-create", o, a)>>, <<>>) :
        o \in PoolOpts, a \in PoolArgs}
    \cup {Document("install", "custom", FALSE, <<>>, <<>>)}

(***************************************************************************)
(* Actions of the compilation                                              *)
(***************************************************************************)

\* parser.parse_config_file(cfg_file)
ParseConfig ==
    /\ stage = "input"
    /\ doc.format = "custom"
    /\ result' = parse_config(doc)
    /\ stage' = "parsed"
    /\ UNCHANGED <<doc, ensureVars, runVars, zfsVars, libVars>>

\* parse_keywords(keywords), of the program that reads the document
ParseKeywords ==
    /\ stage = "parsed"
    /\ result.kind = "Ok"
    /\ \E env \in Envs :
          result' = IF doc.compiler = "sysconfig"
                    THEN parse_keywords(result.set, env)
                    ELSE install_parse_keywords(result.set)
    /\ stage' = "compiled"
    /\ UNCHANGED <<doc, ensureVars, runVars, zfsVars, libVars>>

\* apply_instruction on the CreatePool the document compiled to, up to the
\* run of the zpool command.
CreatePool ==
    /\ stage = "compiled"
    /\ result.kind = "Ok"
    /\ Len(result.set) = 1
    /\ result.set[1].t = "CreatePool"
    /\ \E ho \in {"fwd", "rev"} : result' = create_pool(result.set[1], ho)
    /\ stage' = "pool"
    /\ UNCHANGED <<doc, ensureVars, runVars, zfsVars, libVars>>

InitDocs(docs) ==
    /\ IdleEnsure
    /\ IdleRun
    /\ IdleZfs
    /\ IdleLib
    /\ doc \in docs
    /\ result = <<>>
    /\ stage = "input"

NextCompile == ParseConfig \/ ParseKeywords

NextPool == ParseConfig \/ ParseKeywords \/ CreatePool

SpecCompile == InitDocs(CompileDocs) /\ [][NextCompile]_vars

SpecLine == InitDocs(LineDocs) /\ [][NextCompile]_vars

SpecPool == InitDocs(PoolDocs) /\ [][NextPool]_vars

(***************************************************************************)
(* Claims on the compilers                                                 *)
(***************************************************************************)

\* The records of the document whose name is not a supported keyword.
UnknownAt(d) ==
    {i \in 1..Len(d.lines) : d.lines[i].name \notin SupportedKeywords(d.compiler)}

FirstUnknown(d) == CHOOSE i \in UnknownAt(d) : \A j \in UnknownAt(d) : i <= j

\* Record i of the document compiles when it is compiled on its own.
CompilesAlone(d, i) ==
    IF d.compiler = "sysconfig"
    THEN \A env \in Envs : CompileKeyword(KeywordOfLine(d.lines[i]), env).kind = "Ok"
    ELSE InstallCompileKeyword(KeywordOfLine(d.lines[i])).kind = "Ok"

\* C4: a sequence of records that holds a record of an
\* unsupported keyword never compiles to an instruction set; when every
\* record before the first such record compiles, parse_keywords fails with
\* UnknownInstruction naming that first unsupported keyword.
C4_SchemaClosure ==
    (stage = "compiled" /\ UnknownAt(doc) # {}) =>
        /\ result.kind # "Ok"
        /\ result.set = <<>>
        /\ (\A j \in 1..(FirstUnknown(doc) - 1) : CompilesAlone(doc, j)) =>
               result = Failure("Err", "UnknownInstruction",
                                doc.lines[FirstUnknown(doc)].name, "")

C4_Witness ==
    /\ stage = "compiled"
    /\ doc.compiler = "sysconfig"
    /\ doc.lines = <<Line("keyboard", <<>>, <<"a1", "a2">>), Line("bogus_kw", <<>>, <<>>)>>
    /\ result = Failure("Err", "UnknownInstruction", "bogus_kw", "")

\* C4, read literally: whenever a record of an unsupported keyword is in the
\* sequence, parse_keywords fails with UnknownInstruction naming such a record.
C4_AlwaysUnknownInstruction ==
    (stage = "compiled" /\ UnknownAt(doc) # {}) =>
        /\ result.kind = "Err"
        /\ result.err = "UnknownInstruction"
        /\ result.name \in {doc.lines[i].name : i \in UnknownAt(doc)}

\* C5: a record with an option key outside the allowed options of its
\* keyword does not get through parse_config and parse_keywords.
C5_OptionClosure ==
    (/\ stage = "compiled"
     /\ Len(doc.lines) = 1
     /\ doc.lines[1].name \in DOMAIN get_supported_keywords
     /\ \E i \in 1..Len(doc.lines[1].opts) :
           doc.lines[1].opts[i].k \notin get_supported_keywords[doc.lines[1].name])
    => result.kind # "Ok"

\* The group kind each group-type token stands for.
KindOfToken ==
    ("mirror" :> "Mirror") @@ ("raidz" :> "RaidZ1") @@ ("raidz1" :> "RaidZ1")
    @@ ("raidz2" :> "RaidZ2") @@ ("raidz3" :> "RaidZ3")

TokenIdx(a) == {i \in 2..Len(a) : a[i] \in DOMAIN KindOfToken}

\* The arguments after position i up to the next group-type token.
RunAfter(a, i) ==
    LET later == {j \in TokenIdx(a) : j > i}
        nxt == IF later = {} THEN Len(a) + 1
               ELSE CHOOSE j \in later : \A k \in later : j <= k
    IN SubSeq(a, i + 1, nxt - 1)

IsSuffix(x, y) == Len(x) <= Len(y) /\ SubSeq(y, Len(y) - Len(x) + 1, Len(y)) = x

\* The zpool-create record of a one-line document compiled to a CreatePool.
PoolCompiled ==
    /\ stage = "compiled"
    /\ result.kind = "Ok"
    /\ Len(doc.lines) = 1
    /\ doc.lines[1].name = "zpool-create"
    /\ Len(doc.lines[1].args) >= 1

C9_ImplicitEmptyGroup ==
    (/\ PoolCompiled
     /\ Len(doc.lines[1].args) >= 2
     /\ 2 \notin TokenIdx(doc.lines[1].args)
     /\ Len(RunAfter(doc.lines[1].args, 1)) = 1)
    => result.set[1].vdevs[1] =
          [vdev_type |-> "Empty", devices |-> <<doc.lines[1].args[2]>>]

\* C10: a zpool-create record with two or more devices and no group-type
\* token does not compile.
C10_TwoUntypedRejected ==
    (/\ stage = "compiled"
     /\ Len(doc.lines) = 1
     /\ doc.lines[1].name = "zpool-create"
     /\ Len(doc.lines[1].args) >= 3
     /\ TokenIdx(doc.lines[1].args) = {})
    => result.kind = "Err"

(***************************************************************************)
(* Part 3: the run of a program: sysconfig's main with the drivers of      *)
(* libsysconfig, and libinstall's include_file with apply_instruction      *)
(***************************************************************************)

\* A path: absolute or not, and its components.
Path(abs, comps) == [abs |-> abs, comps |-> comps]

NoPath == Path(FALSE, <<>>)

\* Path::new(root_path) for the roots of the runs.
PathOf == ("/" :> Path(TRUE, <<>>)) @@ ("/a" :> Path(TRUE, <<"a">>))

\* Path::join: joining an absolute path replaces the path joined to.
PathJoin(base, p) ==
    IF p.abs THEN p ELSE Path(base.abs, base.comps \o p.comps)

DEFAULT_INIT_FILE == Path(TRUE, <<"etc", "default", "init">>)

RESOLV_CONF_FILE == Path(TRUE, <<"etc", "resolv.conf">>)

NSSWITCH_CONF_FILE == Path(TRUE, <<"etc", "nsswitch.conf">>)

NSSWITCH_DNS_FILE == Path(TRUE, <<"etc", "nsswitch.dns">>)

NODENAME_FILE == Path(TRUE, <<"etc", "nodename">>)

INET_HOSTS_FILE == Path(TRUE, <<"etc", "inet", "hosts">>)

SHADOW_FILE == Path(TRUE, <<"etc", "shadow">>)

INSTALLER_TMP_DIR == Path(TRUE, <<"var", "tmp", "installer">>)

\* The two paths command::svccfg derives from the root.
svccfg_env(root_path) ==
    [SVCCFG_DTD |->
        PathJoin(PathOf[root_path],
                 Path(TRUE, <<"usr", "share", "lib", "xml", "dtd", "service_bundle.dtd.1">>)),
     SVCCFG_REPOSITORY |->
        PathJoin(PathOf[root_path], Path(TRUE, <<"etc", "svc", "repository.db">>))]

\* One fallible step of an instruction: the read or the write of a file, or
\* the run of an external command.
ReadOp(path) == [op |-> "read", path |-> path, cmd |-> ""]

WriteOp(path) == [op |-> "write", path |-> path, cmd |-> ""]

RunOp(cmd) == [op |-> "run", path |-> NoPath, cmd |-> cmd]

\* What applying an instruction does when no step fails: its steps in order
\* and how it ends after them.
\* err: the InstructionError of an Err the driver itself raises; out: the
\* CommandOutput of the mock driver (<<>> elsewhere).
Plan(ops, end) == [ops |-> ops, end |-> end, err |-> "", out |-> <<>>]

\* The match on the RootPasswordType lets every variant through.
RootPasswordRefusedNever(tp) == FALSE

\* The match on the RootPasswordType: the arm of Clear(_) is the one that
\* returns the error.
RootPasswordRefused(tp) == tp = "Clear"

\* illumos_driver::apply_instruction.  short: the file already holds the
\* wanted line (set_locale, setup_timezone return early), or the shadow file
\* has no root entry (set_root_password_hash skips the write).
illumos_apply_instruction(root_path, ins, short) ==
    LET p == PathOf[root_path] IN
    CASE ins.t = "CreateDataset" -> Plan(<<RunOp("/usr/sbin/zfs create")>>, "Ok")
      [] ins.t = "SetLocale" ->
            Plan(<<ReadOp(PathJoin(p, DEFAULT_INIT_FILE))>>
                 \o (IF short THEN <<>> ELSE <<WriteOp(PathJoin(p, DEFAULT_INIT_FILE))>>), "Ok")
      [] ins.t = "SetupDNS" ->
            Plan(<<WriteOp(PathJoin(p, RESOLV_CONF_FILE)),
                   [op |-> "read", path |-> PathJoin(p, NSSWITCH_DNS_FILE), cmd |-> "/usr/bin/cp"],
                   [op |-> "write", path |-> PathJoin(p, NSSWITCH_CONF_FILE), cmd |-> "/usr/bin/cp"]>>,
                 "Ok")
      [] ins.t = "AddRoute" -> Plan(<<RunOp("/usr/sbin/route")>>, "Ok")
      [] ins.t = "SetRootPassword" ->
            IF RootPasswordRefused(ins.tp)
            THEN [Plan(<<>>, "Err") EXCEPT !.err = "UnencryptedPassword"]
            ELSE Plan(<<ReadOp(PathJoin(p, SHADOW_FILE))>>
                      \o (IF short THEN <<>> ELSE <<WriteOp(PathJoin(p, SHADOW_FILE))>>), "Ok")
      [] ins.t = "SetHostname" ->
            Plan(<<WriteOp(PathJoin(p, NODENAME_FILE)), WriteOp(PathJoin(p, INET_HOSTS_FILE))>>,
                 "Ok")
      [] ins.t = "SetKeymap" -> Plan(<<RunOp("svccfg")>>, "Ok")
      [] ins.t = "SetTimezone" ->
            Plan(<<ReadOp(PathJoin(p, DEFAULT_INIT_FILE))>>
                 \o (IF short THEN <<>> ELSE <<WriteOp(PathJoin(p, DEFAULT_INIT_FILE))>>), "Ok")
      [] ins.t = "SetupTerminal" -> Plan(<<RunOp("svccfg")>>, "Ok")
      [] ins.t = "SetTimeServer" -> Plan(<<>>, "Panic")
      [] ins.t = "ConfigureNetworkAdapter" ->
            Plan((IF ins.ipv4.t = "None" /\ ins.ipv6.t \in {"DHCPStateful", "DHCPStateless", "Static"}
                  THEN <<RunOp("/usr/sbin/ipadm addrconf")>> ELSE <<>>)
                 \o <<RunOp("/usr/sbin/ipadm")>>, "Ok")

\* format!("{:?}", instruction) with the derived Debug of Instruction: the
\* name of the variant and its fields, one text per instruction.
DebugFmt(ins) == [variant |-> ins.t, fields |-> [k \in (DOMAIN ins) \ {"t"} |-> ins[k]]]

\* A mock that goes through the steps of the illumos driver.
mock_apply_instructionForReal(root_path, ins) == illumos_apply_instruction(root_path, ins, FALSE)

\* mock_driver::apply_instruction
mock_apply_instruction(root_path, ins) ==
    [Plan(<<>>, "Ok") EXCEPT
        !.out = [command |-> "mock", root_path |-> root_path,
                 output |-> <<"instruction: ", DebugFmt(ins)>>]]

\* create_be that mounts the boot environment before its dataset is there.
create_be_opsMountFirst ==
    <<RunOp("zfs create ROOT"), WriteOp(Path(TRUE, <<"a">>)), RunOp("/sbin/mount"),
      RunOp("zfs create BE"), RunOp("zfs set uuid"), RunOp("zfs set policy")>>

\* libinstall::create_be
create_be_ops ==
    <<RunOp("zfs create ROOT"), RunOp("zfs create BE"),
      WriteOp(Path(TRUE, <<"a">>)), RunOp("/sbin/mount"),
      RunOp("zfs set uuid"), RunOp("zfs set policy")>>

\* libinstall::make_bootable
make_bootable_ops ==
    <<RunOp("zpool set bootfs"), RunOp("/sbin/beadm activate"),
      RunOp("/sbin/bootadm install-bootloader"), RunOp("/sbin/bootadm update-archive")>>

\* libinstall::apply_instruction without the Include branch.
install_apply_instruction(ins) ==
    CASE ins.t = "CreatePool" ->
            IF create_pool(ins, "fwd").kind = "Ok"
            THEN Plan(<<RunOp("/sbin/zpool create")>> \o create_be_ops \o make_bootable_ops, "Ok")
            ELSE Plan(<<>>, "Err")
      [] ins.t = "CreateDataset" -> Plan(<<RunOp("zfs create")>>, "Ok")
      [] ins.t = "InstallImage" ->
            Plan(<<WriteOp(PathJoin(INSTALLER_TMP_DIR, Path(FALSE, <<"download">>))),
                   WriteOp(PathJoin(INSTALLER_TMP_DIR, Path(FALSE, <<"download", ins.src>>))),
                   ReadOp(Path(TRUE, <<"altroot-" \o ins.pool>>)),
                   RunOp("/usr/sbin/tar")>>, "Ok")
      [] OTHER -> Plan(<<>>, "Ok")

\* The loop of include_file over the instructions of the included file: the
\* steps of the instructions in order, up to the first one that does not end
\* well.
RECURSIVE IncludeLoop(_, _)
IncludeLoop(instructions, ops) ==
    IF instructions = <<>> THEN Plan(ops, "Ok")
    ELSE
        LET pl == install_apply_instruction(Head(instructions)) IN
        IF pl.end = "Ok" THEN IncludeLoop(Tail(instructions), ops \o pl.ops)
        ELSE Plan(ops \o pl.ops, pl.end)

\* libinstall::read_instructions_file
read_instructions_file(d) ==
    IF d.format = "custom" THEN
        LET k == parse_config(d) IN
        IF k.kind # "Ok" THEN k ELSE install_parse_keywords(k.set)
    ELSE IF d.syntax_ok THEN Success(d.instrs)
    ELSE Failure("Err", "Deserialize", "", "")

\* The files of the bundle an Include names.
BundleFiles ==
    ("good.cfg" :>
        Document("install", "custom", TRUE, <<Line("dataset", <<>>, <<"rpool/data">>)>>, <<>>))
    @@ ("bad.cfg" :>
        Document("install", "custom", TRUE,
                 <<Line("dataset", <<>>, <<"rpool/data">>), Line("bogus_kw", <<>>, <<>>)>>, <<>>))
    @@ ("pool.cfg" :>
        Document("install", "custom", TRUE,
                 <<Line("dataset", <<>>, <<"rpool/data">>),
                   Line("zpool-create", <<>>, <<"pool1", "d1", "d2">>)>>, <<>>))

\* libinstall::include_file
include_file(name) ==
    LET opened == ReadOp(Path(FALSE, <<"bundle", name>>))
        r == read_instructions_file(BundleFiles[name])
    IN IF r.kind # "Ok" THEN Plan(<<opened>>, r.kind)
       ELSE IncludeLoop(r.set, <<opened>>)

\* Image::apply_instruction, and libinstall::apply_instruction for the
\* instructions of the installer.
apply_instruction(image, ins, short) ==
    CASE image.driver = "Mock" -> mock_apply_instruction(image.root_path, ins)
      [] image.driver = "Illumos" -> illumos_apply_instruction(image.root_path, ins, short)
      [] OTHER -> IF ins.t = "Include" THEN include_file(ins.name)
                  ELSE install_apply_instruction(ins)

MaxRunRecords == 3

\* The command lines of sysconfig: under SMF or not, with -R or without.
Clis == {[smf |-> FALSE, alt_root |-> ""], [smf |-> FALSE, alt_root |-> "/a"],
         [smf |-> TRUE, alt_root |-> ""]}

RunLines ==
    {Line("system_locale", <<>>, <<"en_US.UTF-8">>),
     Line("setup_dns", <<Opt("domain", "v1")>>, <<"a1">>),
     Line("root_password", <<>>, <<"$6$abc$def">>),
     Line("timeserver", <<>>, <<"a1">>),
     Line("network_interface", <<Opt("bogus_opt", "v1")>>, <<"a1">>),
     Line("bogus_kw", <<>>, <<>>)}

JsonInstructions ==
    {[t |-> "SetHostname", v |-> "a1"],
     [t |-> "SetRootPassword", tp |-> "Clear", v |-> "a1"]}

InstallLines ==
    {Line("dataset", <<>>, <<"rpool/data">>),
     Line("zpool-create", <<>>, <<"pool1", "d1", "d2">>),
     Line("zpool-create", <<>>, <<"pool1", "mirror", "d1", "d2">>)}

InstallJsonInstructions ==
    {[t |-> "Include", name |-> n] : n \in DOMAIN BundleFiles}
    \cup {[t |-> "SeedSmf"]}

RunDocs ==
    {Document("sysconfig", "custom", TRUE, l, <<>>) : l \in SeqsUpTo(RunLines, MaxRunRecords)}
    \cup {Document("sysconfig", "json", TRUE, <<>>, i) :
             i \in SeqsUpTo(JsonInstructions, MaxRunRecords - 1)}
    \cup {Document("sysconfig", f, FALSE, <<>>, <<>>) : f \in {"custom", "json"}}

InstallRunDocs ==
    {Document("install", "custom", TRUE, l, <<>>) : l \in SeqsUpTo(InstallLines, MaxRunRecords - 1)}
    \cup {Document("install", "json", TRUE, <<>>, i) :
             i \in SeqsUpTo(InstallJsonInstructions, MaxRunRecords - 1)}

\* main that goes on to the configuration file whatever config/finished reads.
StartNoGuard ==
    /\ stage = "start"
    /\ \/ /\ cli.smf
          /\ stage' = "done"
          /\ exit' = "Err"
       \/ /\ stage' = "input"
          /\ exit' = exit
    /\ UNCHANGED <<doc, result, cli, img, idx, applied, finished, ensureVars, zfsVars, libVars>>

\* main up to the reading of the configuration file: under SMF the two
\* svcprop calls and the test of config/finished.
Start ==
    /\ stage = "start"
    /\ \/ /\ cli.smf
          /\ finished = "true"
          /\ stage' = "done"
          /\ exit' = "Ok"
       \/ /\ cli.smf
          /\ stage' = "done"
          /\ exit' = "Err"
       \/ /\ ~(cli.smf /\ finished = "true")
          /\ stage' = "input"
          /\ exit' = exit
    /\ UNCHANGED <<doc, result, cli, img, idx, applied, finished, ensureVars, zfsVars, libVars>>

\* serde_json::from_reader, serde_yaml::from_reader, ron::from_str
Deserialize ==
    /\ stage = "input"
    /\ doc.format # "custom"
    /\ result' = IF doc.syntax_ok THEN Success(doc.instrs)
                 ELSE Failure("Err", "Deserialize", "", "")
    /\ stage' = "compiled"
    /\ UNCHANGED <<doc, ensureVars, runVars, zfsVars, libVars>>

\* The `?` after the parse and after the compilation: the program ends with
\* the error.
Abort ==
    /\ stage \in {"parsed", "compiled"}
    /\ result.kind # "Ok"
    /\ stage' = "done"
    /\ exit' = result.kind
    /\ UNCHANGED <<doc, result, cli, img, idx, applied, finished, ensureVars, zfsVars, libVars>>

\* The choice of the image and its driver, before the apply loop.
BeginApply ==
    /\ stage = "compiled"
    /\ result.kind = "Ok"
    /\ img' = IF doc.compiler = "install" THEN [root_path |-> "/", driver |-> "Install"]
              ELSE IF ~cli.smf
                   THEN IF cli.alt_root # ""
                        THEN [root_path |-> cli.alt_root, driver |-> "Illumos"]
                        ELSE [root_path |-> "/", driver |-> "Mock"]
                   ELSE [root_path |-> "/", driver |-> "Illumos"]
    /\ idx' = 1
    /\ stage' = "applying"
    /\ UNCHANGED <<doc, result, cli, applied, finished, exit, ensureVars, zfsVars, libVars>>

\* The body of the apply loop goes on without looking at the result.
AfterApplyGoOn(kind, i) == [idx |-> i + 1, stage |-> "applying", exit |-> ""]

\* `img.apply_instruction(instruction)?` in the loop: the next instruction
\* after an Ok, the end of the program after anything else.
AfterApply(kind, i) ==
    IF kind = "Ok" THEN [idx |-> i + 1, stage |-> "applying", exit |-> ""]
    ELSE [idx |-> i, stage |-> "done", exit |-> kind]

\* One iteration of the apply loop.  failing: the step of the instruction
\* that fails (0: none does).
ApplyInstruction ==
    /\ stage = "applying"
    /\ idx <= Len(result.set)
    /\ \E short \in BOOLEAN :
          LET pl == apply_instruction(img, result.set[idx], short) IN
          \E failing \in 0..Len(pl.ops) :
              LET kind == IF failing > 0 THEN "Err" ELSE pl.end
                  after == AfterApply(kind, idx)
              IN
              /\ applied' = Append(applied,
                                   [i |-> idx, ins |-> result.set[idx], kind |-> kind,
                                    ops |-> IF failing > 0 THEN SubSeq(pl.ops, 1, failing)
                                            ELSE pl.ops,
                                    failing |-> failing,
                                    err |-> IF failing > 0 THEN "" ELSE pl.err,
                                    out |-> IF failing > 0 THEN <<>> ELSE pl.out])
              /\ idx' = after.idx
              /\ stage' = after.stage
              /\ exit' = after.exit
    /\ UNCHANGED <<doc, result, cli, img, finished, ensureVars, zfsVars, libVars>>

\* After the loop: under SMF the run guard is put into place with two
\* svccfg calls, setprop config/finished=true and refresh.
Finish ==
    /\ stage = "applying"
    /\ idx > Len(result.set)
    /\ stage' = "done"
    /\ \/ /\ exit' = "Ok"
          /\ finished' = IF cli.smf THEN "true" ELSE finished
       \/ /\ cli.smf
          /\ exit' = "Err"
          /\ finished' \in {finished, "true"}
    /\ UNCHANGED <<doc, result, cli, img, idx, applied, ensureVars, zfsVars, libVars>>

InitRun ==
    /\ IdleEnsure
    /\ IdleZfs
    /\ IdleLib
    /\ \/ doc \in RunDocs /\ cli \in Clis
       \/ doc \in InstallRunDocs /\ cli = [smf |-> FALSE, alt_root |-> ""]
    /\ finished \in (IF cli.smf THEN {"", "true"} ELSE {""})
    /\ result = <<>>
    /\ stage = "start"
    /\ img = NoImage
    /\ idx = 0
    /\ applied = <<>>
    /\ exit = ""

NextRun ==
    \/ Start
    \/ ParseConfig
    \/ ParseKeywords
    \/ Deserialize
    \/ Abort
    \/ BeginApply
    \/ ApplyInstruction
    \/ Finish

SpecRun == InitRun /\ [][NextRun]_vars

(***************************************************************************)
(* Claims on the run                                                       *)
(***************************************************************************)

IsDescendant(p, r) ==
    /\ p.abs = r.abs
    /\ Len(r.comps) <= Len(p.comps)
    /\ SubSeq(p.comps, 1, Len(r.comps)) = r.comps

\* C3: every path the real driver reads or writes for an instruction applied
\* with root_path R is a descendant of R, and so are the DTD and repository
\* paths svccfg derives from R.
C3_RootConfinement ==
    img.driver = "Illumos" =>
        /\ IsDescendant(svccfg_env(img.root_path).SVCCFG_DTD, PathOf[img.root_path])
        /\ IsDescendant(svccfg_env(img.root_path).SVCCFG_REPOSITORY, PathOf[img.root_path])
        /\ \A k \in 1..Len(applied) : \A j \in 1..Len(applied[k].ops) :
            applied[k].ops[j].op \in {"read", "write"} =>
                IsDescendant(applied[k].ops[j].path, PathOf[img.root_path])

\* The run with -R /a of a document with a setup_dns line writes
\* /etc/resolv.conf of the running system.
C3_Escape ==
    /\ img = [root_path |-> "/a", driver |-> "Illumos"]
    /\ Len(applied) = 1
    /\ applied[1].ins.t = "SetupDNS"
    /\ applied[1].kind = "Ok"
    /\ applied[1].ops[1] = WriteOp(Path(TRUE, <<"etc", "resolv.conf">>))

\* A line of the document carries an option its keyword does not allow, or
\* is a zpool-create with several untyped devices and no group-type token.
LineDefect(d, l) ==
    \/ /\ d.compiler = "sysconfig"
       /\ l.name \in DOMAIN get_supported_keywords
       /\ \E i \in 1..Len(l.opts) : l.opts[i].k \notin get_supported_keywords[l.name]
    \/ /\ d.compiler = "install"
       /\ l.name = "zpool-create"
       /\ Len(l.args) >= 3
       /\ TokenIdx(l.args) = {}

\* The text of the file has a syntax error, an unknown keyword, an unknown
\* option or a structural error.
FileDefect(d) ==
    \/ ~d.syntax_ok
    \/ UnknownAt(d) # {}
    \/ \E i \in 1..Len(d.lines) : LineDefect(d, d.lines[i])

\* The same for the input of a run: the main file and the files it includes.
InputDefect(d) ==
    \/ FileDefect(d)
    \/ \E i \in 1..Len(d.instrs) :
          d.instrs[i].t = "Include" /\ FileDefect(BundleFiles[d.instrs[i].name])

\* A step that changes the target was carried out.
Mutated ==
    \E k \in 1..Len(applied) : \E j \in 1..Len(applied[k].ops) :
        applied[k].ops[j].op \in {"write", "run"} /\ j # applied[k].failing

\* C6: a run whose input has a syntax error, an unknown keyword, an unknown
\* option or a structural error, in the main file or in an included file,
\* changes nothing in the target.
C6_FailFast == InputDefect(doc) => ~Mutated

\* The included file bad.cfg is compiled only when its Include is applied,
\* after the instructions before it changed the target.
C6_MutatedBeforeReject ==
    /\ doc.compiler = "install"
    /\ doc.instrs = <<[t |-> "Include", name |-> "good.cfg"],
                      [t |-> "Include", name |-> "bad.cfg"]>>
    /\ Len(applied) = 2
    /\ applied[1].kind = "Ok"
    /\ applied[1].ops[2] = RunOp("zfs create")
    /\ applied[2].kind = "Err"
    /\ exit = "Err"

\* C7: the instructions are applied in document order, one at a time, none
\* skipped; when applying instruction N fails, the run ends with that error,
\* instructions 1..N-1 stay applied and no later instruction is applied.
C7_InOrderAbort ==
    applied # <<>> =>
        LET n == Len(applied) IN
        /\ n <= Len(result.set)
        /\ \A k \in 1..n : applied[k].i = k /\ applied[k].ins = result.set[k]
        /\ \A k \in 1..(n - 1) : applied[k].kind = "Ok"
        /\ applied[n].kind # "Ok" =>
              /\ stage = "done"
              /\ exit = applied[n].kind
              /\ idx = n
        /\ stage = "applying" => idx = n + 1
        /\ (stage = "done" /\ exit = "Ok") =>
              n = Len(result.set) /\ applied[n].kind = "Ok"

C7_Witness ==
    /\ stage = "done"
    /\ Len(applied) = 2
    /\ Len(result.set) = 3
    /\ applied[1].kind = "Ok"
    /\ applied[1].ops # <<>>
    /\ applied[1].failing = 0
    /\ applied[2].kind = "Err"
    /\ applied[2].failing > 0
    /\ exit = "Err"

(***************************************************************************)
(* Part 4: libinstall/src/zfs.rs, pool_export                              *)
(***************************************************************************)

\* The attempts and the naps are counted up to MaxAttempts and no further:
\* the loop of pool_export has no counter of its own.
MaxAttempts == 10

\* std::time::Duration::from_secs(1)
BackoffSecs == 1

ExportNames == {"rpool", "tank", "rpool@snap"}

\* What `zpool export` leaves on stderr when it fails, cut into the text
\* before the reason, the reason, and what follows it.
Stderrs ==
    {<<"cannot export 'rpool': ", "pool is busy", "\n">>,
     <<"cannot export 'rpool': ", "pool is busy">>,
     <<"cannot export 'rpool': ", "no such pool", "\n">>,
     <<"pool is busy", ": try again later", "\n">>,
     <<>>}

RECURSIVE Trim(_)
\* str::trim at the end of the text.
Trim(e) ==
    IF e # <<>> /\ e[Len(e)] = "\n" THEN Trim(SubSeq(e, 1, Len(e) - 1)) ELSE e

\* errmsg.trim().ends_with("pool is busy")
IsBusy(e) == Trim(e) # <<>> /\ Trim(e)[Len(Trim(e))] = "pool is busy"

\* The loop gives up after MaxAttempts busy answers.
ExportRetryBounded(attempts) == attempts < MaxAttempts

\* The loop of pool_export goes on whatever the number of attempts so far.
ExportRetry(attempts) == TRUE

\* pool_export up to the loop: the bail! on a name with '@'.
ExportEnter ==
    /\ zp.pc = "call"
    /\ zp' = IF Contains(zp.name, <<"@">>)
             THEN [zp EXCEPT !.pc = "done", !.ret = "Err: no @ allowed here"]
             ELSE [zp EXCEPT !.pc = "loop"]
    /\ UNCHANGED <<ensureVars, compileVars, runVars, libVars>>

\* One turn of the loop: the command cannot be run (the `?` on output()), it
\* succeeds, or it fails with some text on stderr.
ExportAttempt ==
    /\ zp.pc = "loop"
    /\ LET n == IF zp.attempts < MaxAttempts THEN zp.attempts + 1 ELSE MaxAttempts IN
       \/ zp' = [zp EXCEPT !.attempts = n, !.pc = "done", !.ret = "Err: spawn"]
       \/ zp' = [zp EXCEPT !.attempts = n, !.pc = "done", !.ret = "Ok(true)"]
       \/ \E e \in Stderrs :
             zp' = IF IsBusy(e) /\ ExportRetry(zp.attempts + 1)
                   THEN [zp EXCEPT !.attempts = n, !.pc = "sleep", !.stderr = e]
                   ELSE [zp EXCEPT !.attempts = n, !.pc = "done", !.stderr = e,
                                   !.ret = "Err: zpool export failed"]
    /\ UNCHANGED <<ensureVars, compileVars, runVars, libVars>>

\* std::thread::sleep and `continue`.
ExportSleep ==
    /\ zp.pc = "sleep"
    /\ zp' = [zp EXCEPT !.pc = "loop", !.nap = BackoffSecs,
                        !.naps = IF @ < MaxAttempts THEN @ + 1 ELSE MaxAttempts]
    /\ UNCHANGED <<ensureVars, compileVars, runVars, libVars>>

InitExport ==
    /\ IdleEnsure
    /\ IdleCompile
    /\ IdleRun
    /\ IdleLib
    /\ \E n \in ExportNames :
          zp = [pc |-> "call", name |-> n, attempts |-> 0, naps |-> 0, nap |-> 0,
                stderr |-> <<>>, ret |-> ""]

NextExport == ExportEnter \/ ExportAttempt \/ ExportSleep

\* The call is not held up: it makes its next step as long as it has one.
SpecExport == InitExport /\ [][NextExport]_vars /\ WF_vars(NextExport)

\* C19: pool_export retries only on "pool is busy", sleeps the same time
\* before every retry, returns any other failure and a success at once, and
\* makes a bounded number of attempts: every call returns, with a fatal error
\* when the pool stays busy.
C19_ExportReturns == <>(zp.pc = "done")

\* The call is at its MaxAttempts-th busy answer and about to sleep and try
\* once more, as after every busy answer before.
C19_StillRetrying ==
    /\ zp.pc = "sleep"
    /\ zp.attempts = MaxAttempts
    /\ zp.naps = MaxAttempts
    /\ IsBusy(zp.stderr)

\* The parts of C19 that do not depend on the number of attempts: a retry
\* follows a busy answer only and a nap of BackoffSecs, every other answer
\* ends the call at once.
C19_RetryOnlyOnBusy ==
    /\ zp.pc = "sleep" => IsBusy(zp.stderr) /\ zp.ret = ""
    /\ (zp.pc = "loop" /\ zp.attempts > 0) => IsBusy(zp.stderr) /\ zp.nap = BackoffSecs
    /\ (zp.pc = "done" /\ zp.ret = "Err: zpool export failed") => ~IsBusy(zp.stderr)
    /\ zp.pc = "done" => zp.ret # ""

(***************************************************************************)
(* ensure::removed.                                                        *)
(***************************************************************************)

\* C20: removed(dst) succeeds and changes nothing when nothing is at dst;
\* it removes the entry when dst is a regular file or a symbolic link (the
\* link, not its target); for an entry of any other type, a directory for
\* one, it returns an error and the entry stays as it was.
C20_Removed ==
    last.call.op = "removed" =>
        /\ last.before = Absent =>
              last.ok /\ last.after = Absent /\ last.effects = <<>>
        /\ last.before.t \in {"File", "Link"} =>
              last.ok /\ last.after = Absent /\ last.effects = <<"unlink">>
        /\ last.before.t \notin {"Absent", "File", "Link"} =>
              ~last.ok /\ last.after = last.before /\ last.effects = <<>>
        /\ fs["dst"] = last.after

C20_Witness ==
    /\ last.call.op = "removed"
    /\ last.before.t = "Link"
    /\ last.ok
    /\ fs["dst"] = Absent

(***************************************************************************)
(* ensure::filestr and ensure::file under the two creation policies.       *)
(***************************************************************************)

\* The last call was filestr or file with the given policy.
Populated(create) ==
    /\ last.call.op \in {"filestr", "file"}
    /\ last.call.create = create

\* The system calls that write or remove the entry itself.
ContentEffects == {"unlink", "write", "copy"}

\* C21: under Create::IfMissing filestr and file never change the type or
\* the content of an entry that exists at dst (nothing is unlinked, written
\* or copied); they return an error, leaving the entry as it is, when dst is
\* neither a regular file nor a symbolic link; an existing regular file or
\* symbolic link is kept and the call is Ok.
C21_IfMissingKeeps ==
    (Populated("IfMissing") /\ last.before # Absent) =>
        /\ last.after.t = last.before.t
        /\ last.after.data = last.before.data
        /\ \A k \in 1..Len(last.effects) : last.effects[k] \notin ContentEffects
        /\ last.before.t \notin {"File", "Link"} => ~last.ok /\ last.after = last.before
        /\ last.before.t \in {"File", "Link"} => last.ok

C21_Witness ==
    /\ Populated("IfMissing")
    /\ last.call.op = "file"
    /\ last.before.t = "Directory"
    /\ ~last.ok
    /\ fs["dst"] = last.before

\* C21, read literally: under Create::IfMissing the call returns an error
\* whenever dst exists as anything other than a regular file.
C21_ErrorUnlessRegularFile ==
    (Populated("IfMissing") /\ last.before.t \notin {"Absent", "File"}) => ~last.ok

\* The bytes the last call of filestr or file was asked to put at dst.
Desired == IF last.call.op = "filestr" THEN last.call.contents ELSE fs["src"].data

\* C22: under Create::Always, when filestr or file returns Ok dst is a
\* regular file with the desired bytes; an existing entry of another type or
\* with other content is removed and recreated with did_work = true; an
\* existing regular file with the desired bytes is not rewritten.
C22_AlwaysEnforces ==
    Populated("Always") =>
        /\ last.ok => last.after.t = "File" /\ last.after.data = Desired
        /\ (/\ last.before # Absent
            /\ (last.call.op = "file" => fs["src"].t = "File")
            /\ (last.before.t # "File" \/ last.before.data # Desired)) =>
               /\ last.ok /\ last.did_work
               /\ Len(last.effects) >= 2
               /\ last.effects[1] = "unlink"
               /\ last.effects[2] \in {"write", "copy"}
        /\ (last.before.t = "File" /\ last.before.data = Desired) =>
               \A k \in 1..Len(last.effects) : last.effects[k] \notin ContentEffects

\* Create::Always on a directory: the call fails and the directory stays.
C22_DirectoryStays ==
    /\ Populated("Always")
    /\ last.call.op = "filestr"
    /\ last.before.t = "Directory"
    /\ ~last.ok
    /\ last.effects = <<>>
    /\ fs["dst"] = last.before

\* The system calls of the last call that created the entry.
CreateEffects == {"mkdir", "write", "copy", "symlink"}

\* C26: perms on an existing path issues chmod only when the path is not a
\* symbolic link and its mode differs from the desired one, chown only when
\* owner or group differs, and returns did_work = true exactly when it issued
\* one of the two; directory, filestr, file and symlink end with it whether
\* they created the entry or not, so after an Ok the entry has the desired
\* owner and group and, unless it is a symbolic link, the desired mode.
C26_PermsReconciled ==
    /\ fs["dst"] # Absent /\ fs["dst"].t # "Other" =>
          \A o \in Ids, g \in Ids, m \in Modes :
              LET e == fs["dst"]
                  r == perms(fs, "dst", o, g, m)
                  mod == e.t # "Link" /\ e.perms # m
                  own == e.owner # o \/ e.group # g
              IN  /\ r.ok
                  /\ r.effects = (IF mod THEN <<"chmod">> ELSE <<>>)
                                 \o (IF own THEN <<"chown">> ELSE <<>>)
                  /\ r.did_work <=> (mod \/ own)
                  /\ r.fs["dst"] = [e EXCEPT !.perms = IF mod THEN m ELSE @,
                                             !.owner = o, !.group = g]
                  /\ r.fs["src"] = fs["src"]
    /\ (last.call.op \in {"directory", "filestr", "file", "symlink"} /\ last.ok) =>
          LET c == last.call
              created == \E k \in 1..Len(last.effects) : last.effects[k] \in CreateEffects
              changed == \E k \in 1..Len(last.effects) : last.effects[k] \in {"chmod", "chown"}
          IN  /\ last.after.owner = c.owner /\ last.after.group = c.group
              /\ last.after.t # "Link" => last.after.perms = c.mode
              /\ last.after.t = "Link" =>
                     \A k \in 1..Len(last.effects) : last.effects[k] # "chmod"
              /\ last.did_work <=> (created \/ changed)
              /\ ~created =>
                     /\ (\E k \in 1..Len(last.effects) : last.effects[k] = "chmod")
                            <=> (last.before.t # "Link" /\ last.before.perms # c.mode)
                     /\ (\E k \in 1..Len(last.effects) : last.effects[k] = "chown")
                            <=> (last.before.owner # c.owner \/ last.before.group # c.group)

\* A symbolic link that is already there, with the wanted target and another
\* owner: the ownership is changed, the mode of the link is left alone.
C26_Witness ==
    /\ last.call.op = "symlink"
    /\ last.ok
    /\ last.before.t = "Link"
    /\ last.before.perms # last.call.mode
    /\ last.effects = <<"chown">>
    /\ last.did_work

(***************************************************************************)
(* The branches of libsysconfig::parse_keywords, one record at a time.     *)
(***************************************************************************)

\* The one record of a one-line document, once it is compiled.
LineCompiled(name) ==
    /\ stage = "compiled"
    /\ doc.compiler = "sysconfig"
    /\ Len(doc.lines) = 1
    /\ doc.lines[1].name = name

\* C11: a root_password record whose first argument starts with "$", one
\* digit, "$" compiles to SetRootPassword(Hash(argument)), the argument
\* unchanged; with any other first argument a compilation that succeeds gives
\* SetRootPassword(Hash(h)), h the output of gen_password_hash for the
\* argument, which is neither the argument nor holds it; the Clear variant is
\* never emitted.
C11_RootPasswordHashed ==
    (LineCompiled("root_password") /\ doc.lines[1].args # <<>>) =>
        LET a == doc.lines[1].args[1]
            ch == Chars(a)
            prefixed == /\ Len(ch) >= 3
                        /\ ch[1] = "$"
                        /\ ch[2] \in {"0", "1", "2", "3", "4", "5", "6", "7", "8", "9"}
                        /\ ch[3] = "$"
        IN  /\ result.kind \in {"Ok", "Err"}
            /\ prefixed => result = Success(<<[t |-> "SetRootPassword", tp |-> "Hash", v |-> a]>>)
            /\ (~prefixed /\ result.kind = "Ok") =>
                   /\ result.set = <<[t |-> "SetRootPassword", tp |-> "Hash",
                                      v |-> gen_password_hash(a, TRUE).v]>>
                   /\ result.set[1].v # a
                   /\ ~Contains(result.set[1].v, ch)
            /\ result.kind = "Ok" => \A k \in 1..Len(result.set) : result.set[k].tp # "Clear"

C11_Witness ==
    /\ LineCompiled("root_password")
    /\ doc.lines[1].args = <<"$x$abc">>
    /\ result = Success(<<[t |-> "SetRootPassword", tp |-> "Hash", v |-> "$6$salt$k9Z"]>>)

\* The Keyword parse_config makes of the one record of the document.
LineKeyword == KeywordOfLine(doc.lines[1])

\* A network_interface record with a device, compiled.
NetCompiled ==
    /\ LineCompiled("network_interface")
    /\ doc.lines[1].args # <<>>
    /\ result.kind = "Ok"

\* C13: option static with a value without ':' gives ipv4 = Static(value);
\* static with a value holding ':' gives ipv6 = Static(value); static6,
\* whenever it is given, gives ipv6 = Static(the value of static6), also next
\* to static (where both name an IPv6 address, the one of static6).
C13_AddressSelection ==
    NetCompiled =>
        LET st == OptGet(LineKeyword.options, "static")
            st6 == OptGet(LineKeyword.options, "static6")
            ins == result.set[1]
        IN  /\ (st.some /\ ~Contains(st.v, <<":">>)) =>
                   ins.ipv4 = [t |-> "Static", addr |-> st.v]
            /\ (st.some /\ Contains(st.v, <<":">>) /\ ~st6.some) =>
                   ins.ipv6 = [t |-> "Static", addr |-> st.v]
            /\ st6.some => ins.ipv6 = [t |-> "Static", addr |-> st6.v]

\* static holds an IPv6 literal, static6 another address: the instruction has
\* the address of static, the one of static6 is gone.
C13_Static6Dropped ==
    /\ NetCompiled
    /\ doc.lines[1].opts = <<Opt("static", "fe80::1"), Opt("static6", "v1")>>
    /\ result.set[1].ipv4 = NoNet
    /\ result.set[1].ipv6 = [t |-> "Static", addr |-> "fe80::1"]

\* C14: a network_interface record with neither static nor static6 compiles
\* to ipv4 = DHCP and ipv6 = DHCPStateful, with other options or with no
\* option at all; primary is true exactly when the key primary is given.
C14_DhcpDefault ==
    NetCompiled =>
        LET o == LineKeyword.options
            ins == result.set[1]
        IN  /\ (~OptGet(o, "static").some /\ ~OptGet(o, "static6").some) =>
                   /\ ins.ipv4 = [t |-> "DHCP", addr |-> ""]
                   /\ ins.ipv6 = [t |-> "DHCPStateful", addr |-> ""]
            /\ ins.primary <=> (\E k \in 1..Len(doc.lines[1].opts) :
                                   doc.lines[1].opts[k].k = "primary")

\* A record with no option at all: the instruction has no address
\* configuration, neither for IPv4 nor for IPv6.
C14_NoOptionsNoAddress ==
    /\ NetCompiled
    /\ doc.lines[1].opts = <<>>
    /\ result.set[1].ipv4 = NoNet
    /\ result.set[1].ipv6 = NoNet

\* C17: for a line that gives an option name several times the record of
\* parse_config maps the name to the value of its last occurrence, and the
\* map has one entry per distinct name.
C17_LastWins ==
    (stage = "parsed" /\ result.kind = "Ok") =>
        \A i \in 1..Len(doc.lines) :
            LET o == doc.lines[i].opts
                opt == result.set[i].options
            IN  o # <<>> =>
                    /\ opt.some
                    /\ DOMAIN opt.m = {o[k].k : k \in 1..Len(o)}
                    /\ \A k \in 1..Len(o) :
                          (\A j \in (k + 1)..Len(o) : o[j].k # o[k].k) => opt.m[o[k].k] = o[k].v

\* A line with the same option name twice: the record holds the first value.
C17_FirstKept ==
    /\ stage = "parsed"
    /\ doc.lines = <<Line("network_interface",
                          <<Opt("name", "v1"), Opt("name", "fe80::1")>>, <<"a1">>)>>
    /\ result.set[1].options = SomeOptions("name" :> "v1")

\* A system_locale record with a locale name, compiled.
LocaleCompiled ==
    /\ LineCompiled("system_locale")
    /\ doc.lines[1].args # <<>>
    /\ result.kind = "Ok"

\* C15: SetLocale.name is the locale string; SetLocale.unicode is true when
\* the string, put in upper case, contains ".UTF-8"; otherwise it is false
\* exactly when the string contains a '.'.
C15_UnicodeFlag ==
    LocaleCompiled =>
        LET n == doc.lines[1].args[1]
            up == [i \in 1..Len(Chars(n)) |-> UpperChar(Chars(n)[i])]
            dotutf == \E i \in 1..Len(up) :
                          /\ i + 5 <= Len(up)
                          /\ <<up[i], up[i + 1], up[i + 2], up[i + 3], up[i + 4], up[i + 5]>>
                                 = <<".", "U", "T", "F", "-", "8">>
            dot == \E i \in 1..Len(up) : up[i] = "."
        IN  /\ result.set = <<[t |-> "SetLocale", name |-> n, unicode |-> dotutf \/ ~dot]>>

C15_Witness ==
    /\ LocaleCompiled
    /\ doc.lines[1].args[1] = "C.utf-8"
    /\ result.set[1].unicode

\* C15, read literally: unicode is false exactly when the string contains a
\* '.' and does not contain "UTF-8".
C15_FalseIffDotWithoutUTF8 ==
    LocaleCompiled =>
        LET n == doc.lines[1].args[1] IN
        ~result.set[1].unicode <=>
            (Contains(n, <<".">>) /\ ~Contains(n, <<"U", "T", "F", "-", "8">>))

\* C16: a route record with exactly two arguments compiles to AddRoute with
\* name and route_match both the first argument (the gateway is the second);
\* with three or more arguments name, route_match and gateway are the first,
\* the second and the third argument.
C16_RouteArguments ==
    LineCompiled("route") =>
        LET a == doc.lines[1].args IN
        /\ Len(a) = 2 =>
              result = Success(<<[t |-> "AddRoute", name |-> a[1], route_match |-> a[1],
                                  gateway |-> a[2]]>>)
        /\ Len(a) >= 3 =>
              result = Success(<<[t |-> "AddRoute", name |-> a[1], route_match |-> a[2],
                                  gateway |-> a[3]]>>)

C16_Witness ==
    /\ LineCompiled("route")
    /\ doc.lines[1].args = <<"a1", "a2", "a3", "a4">>
    /\ result.kind = "Ok"
    /\ result.set[1].route_match = "a2"
    /\ result.set[1].gateway = "a3"

\* C28: in a compiled CreatePool pool_options holds neither ashift nor uefi,
\* and the command line of create_pool names each of them at most once.
C28_AshiftUefiOnlyInFields ==
    /\ (stage = "compiled" /\ result.kind = "Ok" /\ doc.compiler = "install") =>
          \A k \in 1..Len(result.set) :
              (result.set[k].t = "CreatePool" /\ result.set[k].pool_options.some) =>
                  DOMAIN result.set[k].pool_options.m \cap {"ashift", "uefi"} = {}
    /\ (stage = "pool" /\ result.kind = "Ok") =>
          \A v \in DOMAIN I32Table :
              Cardinality({k \in 1..Len(result.set) : result.set[k] = "ashift=" \o v}) <= 1

\* The command line of a pool given with --ashift=12: "-o ashift=12" twice,
\* once from the ashift field and once from pool_options.
C28_AshiftTwice ==
    /\ stage = "pool"
    /\ result.kind = "Ok"
    /\ Cardinality({k \in 1..Len(result.set) : result.set[k] = "ashift=12"}) = 2

\* C29: for every sequence of records parse_keywords returns Ok with one
\* instruction per record, in the order of the records, or Err with no
\* instruction; it never aborts.
C29_CompilationTotal ==
    (stage = "compiled" /\ doc.format = "custom") =>
        /\ result.kind \in {"Ok", "Err"}
        /\ result.kind = "Err" => result.set = <<>>
        /\ result.kind = "Ok" =>
              /\ Len(result.set) = Len(doc.lines)
              /\ \A k \in 1..Len(doc.lines) :
                    LET c == KeywordOfLine(doc.lines[k]) IN
                    IF doc.compiler = "sysconfig"
                    THEN \E env \in Envs : CompileKeyword(c, env).set = <<result.set[k]>>
                    ELSE InstallCompileKeyword(c).set = <<result.set[k]>>

\* A record of a supported keyword with no argument, after a record that
\* compiles: arguments[0] is out of bounds and the compilation aborts.
C29_Aborted ==
    /\ stage = "compiled"
    /\ doc.compiler = "sysconfig"
    /\ doc.lines = <<Line("timezone", <<>>, <<"a1", "a2">>), Line("keyboard", <<>>, <<>>)>>
    /\ result = Panic

\* A route record with one argument aborts the same way, at arguments[1].
C29_RouteOneArgument ==
    /\ LineCompiled("route")
    /\ Len(doc.lines[1].args) = 1
    /\ result = Panic

(***************************************************************************)
(* The drivers.                                                            *)
(***************************************************************************)

\* The entries of the apply loop whose instruction is SetRootPassword(Clear(_)).
ClearApplied ==
    {k \in 1..Len(applied) :
        applied[k].ins.t = "SetRootPassword" /\ applied[k].ins.tp = "Clear"}

\* C12: applying SetRootPassword(Clear(_)) through Image::apply_instruction
\* with Driver::Illumos is refused with UnencryptedPassword: the call returns
\* the error, the run ends with it, and no step was made, the shadow file of
\* the root neither read nor written; with no driver does applying it write
\* the shadow file.
C12_ClearRefusedByIllumos ==
    \A k \in ClearApplied :
        /\ img.driver = "Illumos" =>
              /\ applied[k].kind = "Err"
              /\ applied[k].err = "UnencryptedPassword"
              /\ applied[k].ops = <<>>
              /\ k = Len(applied) /\ stage = "done" /\ exit = "Err"
        /\ \A j \in 1..Len(applied[k].ops) : applied[k].ops[j].op # "write"

C12_Witness ==
    /\ img.driver = "Illumos"
    /\ Len(applied) = 2
    /\ applied[1].ins.t = "SetHostname"
    /\ applied[1].kind = "Ok"
    /\ 2 \in ClearApplied
    /\ applied[2].err = "UnencryptedPassword"
    /\ exit = "Err"

\* C12, read literally: with whatever driver the Image has, applying
\* SetRootPassword(Clear(_)) returns the error UnencryptedPassword.
C12_ClearRefusedByEveryDriver ==
    \A k \in ClearApplied :
        applied[k].kind = "Err" /\ applied[k].err = "UnencryptedPassword"

\* C18: with Driver::Mock, Image::apply_instruction makes no step for any
\* instruction (nothing of the root read or written, no command run) and
\* returns Ok with a CommandOutput of the command "mock", whose root_path is
\* the root of the image, any root, and whose output is "instruction: "
\* followed by the Debug text of the instruction.
C18_MockNoSideEffects ==
    img.driver = "Mock" =>
        \A k \in 1..Len(applied) :
            /\ applied[k].ops = <<>>
            /\ applied[k].kind = "Ok"
            /\ applied[k].out = [command |-> "mock", root_path |-> img.root_path,
                                 output |-> <<"instruction: ", DebugFmt(applied[k].ins)>>]
            /\ \A r \in DOMAIN PathOf :
                  LET pl == apply_instruction([root_path |-> r, driver |-> "Mock"],
                                              applied[k].ins, FALSE)
                  IN pl.ops = <<>> /\ pl.end = "Ok" /\ pl.out.root_path = r

C18_Witness ==
    /\ img = [root_path |-> "/", driver |-> "Mock"]
    /\ stage = "done"
    /\ exit = "Ok"
    /\ Len(applied) = 2
    /\ applied[1].ins = [t |-> "SetHostname", v |-> "a1"]
    /\ applied[2].ins.t = "SetRootPassword"
    /\ applied[2].out.output[2].variant = "SetRootPassword"

\* C25: the steps of a CreatePool run in the order pool create, ROOT
\* dataset create, boot-environment dataset create, mount (the mount point,
\* then the mount), boot-environment properties, make bootable (bootfs,
\* activation, boot loader, boot archive); what ran is a prefix of that
\* order, the whole of it exactly when the instruction is Ok; a failing step
\* is the last step that ran and ends the instruction and the run with an
\* error, and no step that undoes an earlier one is run.
C25_PoolStepsInOrder ==
    \A k \in 1..Len(applied) :
        applied[k].ins.t = "CreatePool" =>
            LET steps == <<"/sbin/zpool create", "zfs create ROOT", "zfs create BE", "",
                           "/sbin/mount", "zfs set uuid", "zfs set policy",
                           "zpool set bootfs", "/sbin/beadm activate",
                           "/sbin/bootadm install-bootloader", "/sbin/bootadm update-archive">>
                e == applied[k]
                n == Len(e.ops)
            IN  /\ n <= Len(steps)
                /\ \A j \in 1..n : e.ops[j].cmd = steps[j]
                /\ (n >= 4) => e.ops[4] = WriteOp(Path(TRUE, <<"a">>))
                /\ e.kind = "Ok" <=> (n = Len(steps) /\ e.failing = 0)
                /\ e.failing > 0 => e.failing = n
                /\ e.kind # "Ok" => k = Len(applied) /\ stage = "done" /\ exit = e.kind

C25_Witness ==
    /\ Len(applied) = 2
    /\ applied[1].kind = "Ok"
    /\ applied[2].ins.t = "CreatePool"
    /\ applied[2].failing = 5
    /\ applied[2].ops[5] = RunOp("/sbin/mount")
    /\ Len(applied[2].ops) = 5
    /\ exit = "Err"

\* C27: under SMF, when config/finished reads "true" the run ends at once
\* and applies nothing; config/finished becomes true only after every
\* instruction of the sequence was applied with success, so a run in which
\* an instruction failed (or the input was rejected) ends with the guard
\* unset, which is the state a later run starts its work from.
C27_RunOnceGuard ==
    /\ (cli.smf /\ finished = "true") =>
          /\ stage \in {"start", "done"}
          /\ applied # <<>> =>
                /\ result.kind = "Ok"
                /\ Len(applied) = Len(result.set)
                /\ \A k \in 1..Len(applied) : applied[k].kind = "Ok"
          /\ (stage = "done" /\ applied = <<>>) =>
                exit \in {"Ok", "Err"} /\ (result # <<>> => result.set = <<>>)
    /\ (\E k \in 1..Len(applied) : applied[k].kind # "Ok") => finished = ""
    /\ (stage = "done" /\ result # <<>> /\ result.kind # "Ok") => finished = ""
    /\ ~cli.smf => finished = ""

\* All three instructions applied under SMF, and the guard put into place.
C27_Witness ==
    /\ cli.smf
    /\ stage = "done"
    /\ exit = "Ok"
    /\ Len(applied) = 3
    /\ finished = "true"

(***************************************************************************)
(* Part 5: libshadow/src/lib.rs                                            *)
(*                                                                         *)
(* A shadow file text is the sequence of its lines, a line the texts of    *)
(* its nine fields: username and password are strings, the seven numeric   *)
(* fields are strings of decimal digits (<<>> is the empty field).         *)
(***************************************************************************)

\* The longest shadow file of the model, in lines.
MaxShadowLines == 2

\* str::parse::<i64> on a string of decimal digits; the values of the model
\* stay far below 2^63.
RECURSIVE ParseI64(_)
ParseI64(ds) ==
    LET val(c) == CHOOSE d \in 0..9 : <<"0", "1", "2", "3", "4", "5", "6", "7", "8", "9">>[d + 1] = c
    IN  IF ds = <<>> THEN 0
        ELSE 10 * ParseI64(SubSeq(ds, 1, Len(ds) - 1)) + val(ds[Len(ds)])

\* format!("{}", n) for an i64.
RECURSIVE FormatI64(_)
FormatI64(n) ==
    IF n < 0 THEN <<"-">> \o FormatI64(0 - n)
    ELSE IF n < 10 THEN <<(<<"0", "1", "2", "3", "4", "5", "6", "7", "8", "9">>)[n + 1]>>
    ELSE FormatI64(n \div 10) \o FormatI64(n % 10)

\* ShadowEntry::default.
DefaultShadowEntry ==
    [username |-> "", password_hash |-> "",
     password_locked |-> FALSE, no_login |-> FALSE, no_password |-> FALSE,
     password_last_changed |-> 0,
     min |-> -1, max |-> -1, warn |-> -1, inactive |-> -1, expire |-> -1, flag |-> 0]

\* The pairs the grammar shadow.pest yields for one line, in the order of
\* the fields: one pair per field that is not empty, named after the field;
\* the password field gives locked_password for *LK*, no_login for NL,
\* no_password for NP and password for anything else.
entry_pairs(line) ==
    LET word(rule, str) == IF str = "" THEN <<>> ELSE <<[rule |-> rule, str |-> str]>>
        pair(rule, str) == IF str = <<>> THEN <<>> ELSE <<[rule |-> rule, str |-> str]>>
    IN  word("username", line.username)
        \o (CASE line.password = "*LK*" -> word("locked_password", line.password)
              [] line.password = "NL" -> word("no_login", line.password)
              [] line.password = "NP" -> word("no_password", line.password)
              [] OTHER -> word("password", line.password))
        \o pair("lastchg", line.lastchg) \o pair("min", line.min) \o pair("max", line.max)
        \o pair("warn", line.warn) \o pair("inactive", line.inactive)
        \o pair("expire", line.expire) \o pair("flag", line.flag)

\* The match on entry_pair.as_rule() of parse_shadow_file, pair after pair.
RECURSIVE ParseEntry(_, _)
ParseEntry(pairs, e) ==
    IF pairs = <<>> THEN e
    ELSE
        LET q == pairs[1]
            r == q.rule
            f == CASE r = "username" -> [e EXCEPT !.username = q.str]
                   [] r = "password" -> [e EXCEPT !.password_hash = q.str]
                   [] r = "no_login" -> [e EXCEPT !.no_login = TRUE]
                   [] r = "no_password" -> [e EXCEPT !.no_password = TRUE]
                   [] r = "locked_password" -> [e EXCEPT !.password_locked = TRUE]
                   [] r = "lastchg" -> [e EXCEPT !.password_last_changed = ParseI64(q.str)]
                   [] r = "min" -> [e EXCEPT !.min = ParseI64(q.str)]
                   [] r = "max" -> [e EXCEPT !.max = ParseI64(q.str)]
                   [] r = "warn" -> [e EXCEPT !.warn = ParseI64(q.str)]
                   [] r = "inactive" -> [e EXCEPT !.inactive = ParseI64(q.str)]
                   [] r = "expire" -> [e EXCEPT !.expire = ParseI64(q.str)]
                   [] r = "flag" -> [e EXCEPT !.flag = ParseI64(q.str)]
                   [] OTHER -> e
        IN  ParseEntry(Tail(pairs), f)

\* parse_shadow_file: the entries of the ShadowFile, an entry without
\* username being left out.
RECURSIVE parse_shadow_file(_)
parse_shadow_file(text) ==
    IF text = <<>> THEN <<>>
    ELSE
        LET shadow_entry == ParseEntry(entry_pairs(text[1]), DefaultShadowEntry)
        IN  (IF shadow_entry.username # "" THEN <<shadow_entry>> ELSE <<>>)
            \o parse_shadow_file(Tail(text))

\* ShadowEntry::print_password_entry.
print_password_entry(e) ==
    IF e.password_locked THEN "*LK*"
    ELSE IF e.no_login THEN "NL"
    ELSE IF e.no_password THEN "NP"
    ELSE e.password_hash

\* ShadowEntry::print_lastchg, print_min, print_max, print_warn,
\* print_inactive, print_expire and print_flag: the empty string for the
\* value that stands for "not set" (0 for lastchg and flag, -1 for the rest).
print_number(v, unset) == IF v # unset THEN FormatI64(v) ELSE <<>>

\* ShadowFile::serialize, line by line (the lines are joined with "\n").
serialize(entries) ==
    [i \in 1..Len(entries) |->
        LET e == entries[i] IN
        [username |-> e.username,
         password |-> print_password_entry(e),
         lastchg |-> print_number(e.password_last_changed, 0),
         min |-> print_number(e.min, -1),
         max |-> print_number(e.max, -1),
         warn |-> print_number(e.warn, -1),
         inactive |-> print_number(e.inactive, -1),
         expire |-> print_number(e.expire, -1),
         flag |-> print_number(e.flag, 0)]]

\* ShadowFile::get_entry: the first entry with the username, or None.
get_entry(entries, username) ==
    LET hits == {i \in 1..Len(entries) : entries[i].username = username} IN
    IF hits = {} THEN [some |-> FALSE]
    ELSE [some |-> TRUE, v |-> entries[CHOOSE i \in hits : \A j \in hits : i <= j]]

\* ShadowFile::insert_or_update: the loop over the entries with its return
\* at the first entry of the same username; nothing follows the loop.
insert_or_update(entries, entry) ==
    LET hits == {i \in 1..Len(entries) : entries[i].username = entry.username} IN
    IF hits = {} THEN entries
    ELSE [entries EXCEPT ![CHOOSE i \in hits : \A j \in hits : i <= j] = entry]

\* The lines of the shadow files of the model.
ShadowLines ==
    [username : {"root", "bin"},
     password : {"$6$abc$def", "NP", "*LK*", "NL"},
     lastchg : {<<>>, <<"0">>, <<"6", "4", "4", "5">>},
     min : {<<>>, <<"7">>},
     max : {<<>>},
     warn : {<<>>},
     inactive : {<<>>},
     expire : {<<>>, <<"1", "9", "0", "0", "0">>},
     flag : {<<>>}]

\* The entries handed to insert_or_update: root and an account no file of
\* the model holds, each with a new hash.
ShadowArgs ==
    {[DefaultShadowEntry EXCEPT !.username = u, !.password_hash = "$6$salt$Xq3",
                                !.password_last_changed = 18675] : u \in {"root", "adm"}}

\* let shadow = parse_shadow_file(&contents)
ParseShadowFile ==
    /\ sh # <<>>
    /\ sh.pc = "text"
    /\ sh' = [sh EXCEPT !.pc = "parsed", !.file = parse_shadow_file(sh.text)]
    /\ UNCHANGED <<ensureVars, compileVars, runVars, zfsVars, ini>>

\* shadow.insert_or_update(entry)
InsertOrUpdate ==
    /\ sh # <<>>
    /\ sh.pc = "parsed"
    /\ \E entry \in ShadowArgs :
          sh' = [sh EXCEPT !.pc = "updated", !.before = sh.file, !.arg = entry,
                           !.file = insert_or_update(sh.file, entry)]
    /\ UNCHANGED <<ensureVars, compileVars, runVars, zfsVars, ini>>

\* let new_file = shadow.serialize()
Serialize ==
    /\ sh # <<>>
    /\ sh.pc \in {"parsed", "updated"}
    /\ sh' = [sh EXCEPT !.pc = "done", !.out = serialize(sh.file)]
    /\ UNCHANGED <<ensureVars, compileVars, runVars, zfsVars, ini>>

InitShadow ==
    /\ IdleEnsure
    /\ IdleCompile
    /\ IdleRun
    /\ IdleZfs
    /\ ini = <<>>
    /\ \E n \in 0..MaxShadowLines : \E text \in [1..n -> ShadowLines] :
          sh = [pc |-> "text", text |-> text, file |-> <<>>, before |-> <<>>,
                arg |-> <<>>, out |-> <<>>]

NextShadow == ParseShadowFile \/ InsertOrUpdate \/ Serialize

SpecShadow == InitShadow /\ [][NextShadow]_vars

\* C23: parse_shadow_file followed by serialize gives back the text it was
\* given, line for line and field for field, whatever the password and the
\* aging fields of the lines hold.
C23_RoundTrip ==
    (sh # <<>> /\ sh.pc = "done" /\ sh.arg = <<>>) => sh.out = sh.text

\* A line whose lastchg field is 0 comes back with the field empty.
C23_LastchgZeroLost ==
    /\ sh # <<>>
    /\ sh.pc = "done"
    /\ sh.arg = <<>>
    /\ Len(sh.text) = 1
    /\ Len(sh.out) = 1
    /\ sh.text[1].lastchg = <<"0">>
    /\ sh.out[1].lastchg = <<>>
    /\ sh.out[1] = [sh.text[1] EXCEPT !.lastchg = <<>>]

\* C24: insert_or_update(entry) puts entry in the place of the first entry
\* of the same username and leaves the others as they are, or, when no
\* entry has the username, adds entry at the end; get_entry(entry.username)
\* then returns entry.
C24_InsertOrUpdate ==
    (sh # <<>> /\ sh.pc = "updated") =>
        LET hits == {i \in 1..Len(sh.before) : sh.before[i].username = sh.arg.username} IN
        /\ get_entry(sh.file, sh.arg.username) = [some |-> TRUE, v |-> sh.arg]
        /\ hits # {} =>
              /\ Len(sh.file) = Len(sh.before)
              /\ \E i \in hits :
                    /\ \A j \in hits : i <= j
                    /\ sh.file = [sh.before EXCEPT ![i] = sh.arg]
        /\ hits = {} => sh.file = Append(sh.before, sh.arg)

\* An entry for an account the file does not hold: the file is as before
\* and get_entry finds nothing.
C24_NotInserted ==
    /\ sh # <<>>
    /\ sh.pc = "updated"
    /\ Len(sh.before) = 2
    /\ \A i \in 1..Len(sh.before) : sh.before[i].username # sh.arg.username
    /\ sh.file = sh.before
    /\ get_entry(sh.file, sh.arg.username) = [some |-> FALSE]

(***************************************************************************)
(* Part 6: libsysconfig/src/illumos_driver.rs, set_locale                  *)
(*                                                                         *)
(* A file is the sequence of its lines, a line the sequence of its         *)
(* characters: str::lines leaves the line ends out and the loop writes     *)
(* "\n" after every line.                                                  *)
(***************************************************************************)

\* The longest /etc/default/init of the model, in lines.
MaxInitLines == 2

\* The lines the files hold before the call.
InitFileLines ==
    {<<"T", "Z", "=", "U", "T", "C">>,
     <<"C", "M", "A", "S", "K", "=", "0", "2", "2">>,
     <<"L", "A", "N", "G", "=", "C">>,
     <<"L", "A", "N", "G", "=">> \o Chars("en_US.UTF-8"),
     <<"L", "A", "N", "G", "U", "A", "G", "E", "=", "e", "n">>}

NoFile == [exists |-> FALSE, lines |-> <<>>]

\* The locale written: the name, with .UTF-8 after it when unicode is set
\* and the name does not hold UTF-8.
LocaleWritten(locale, unicode) ==
    IF unicode /\ ~Contains(locale, <<"U", "T", "F", "-", "8">>)
    THEN Chars(locale) \o <<".", "U", "T", "F", "-", "8">>
    ELSE Chars(locale)

\* line.starts_with("LANG")
StartsWithLANG(line) == Len(line) >= 4 /\ SubSeq(line, 1, 4) = <<"L", "A", "N", "G">>

\* set_locale on the files of the machine: the file it opened does not
\* exist, a line is already "LANG=" + locale (return with nothing written),
\* or the file is written again with every line that starts with LANG
\* replaced.
set_locale(files, root_path, locale, unicode) ==
    LET p == PathJoin(PathOf[root_path], DEFAULT_INIT_FILE)
        want == <<"L", "A", "N", "G", "=">> \o LocaleWritten(locale, unicode)
        content == files[p].lines
        new_content == [i \in 1..Len(content) |->
                           IF StartsWithLANG(content[i]) THEN want ELSE content[i]]
    IN  IF ~files[p].exists THEN [kind |-> "Err", output |-> "", files |-> files]
        ELSE IF \E i \in 1..Len(content) : StartsWithLANG(content[i]) /\ content[i] = want
        THEN [kind |-> "Ok", output |-> "", files |-> files]
        ELSE [kind |-> "Ok", output |-> "success",
              files |-> [files EXCEPT ![p] = [exists |-> TRUE, lines |-> new_content]]]

\* The call up to the file read into content: File::open fails on a file
\* that is not there.
SetLocaleOpen ==
    /\ ini # <<>>
    /\ ini.pc = "call"
    /\ ini' = IF set_locale(ini.files, ini.root_path, ini.locale, ini.unicode).kind = "Err"
              THEN [ini EXCEPT !.pc = "done", !.ret = "Err"]
              ELSE [ini EXCEPT !.pc = "read"]
    /\ UNCHANGED <<ensureVars, compileVars, runVars, zfsVars, sh>>

\* The loop over the lines and what follows it; File::create can fail, and
\* nothing is written then.
SetLocaleRewrite ==
    /\ ini # <<>>
    /\ ini.pc = "read"
    /\ LET r == set_locale(ini.files, ini.root_path, ini.locale, ini.unicode) IN
       \/ ini' = [ini EXCEPT !.pc = "done", !.ret = r.kind, !.output = r.output,
                             !.files = r.files]
       \/ /\ r.output = "success"
          /\ ini' = [ini EXCEPT !.pc = "done", !.ret = "Err"]
    /\ UNCHANGED <<ensureVars, compileVars, runVars, zfsVars, sh>>

\* A call of set_locale for the running system (root /) or for an image
\* mounted at /a, each with its own etc/default/init.
InitLocale ==
    /\ IdleEnsure
    /\ IdleCompile
    /\ IdleRun
    /\ IdleZfs
    /\ sh = <<>>
    /\ \E root \in DOMAIN PathOf, locale \in {"C", "en_US.UTF-8", "C.ISO8859-1"},
          unicode \in BOOLEAN :
       \E live, image \in {NoFile}
                          \cup {[exists |-> TRUE, lines |-> l] :
                                    l \in SeqsUpTo(InitFileLines, MaxInitLines)} :
          /\ root = "/" => image = NoFile
          /\ LET files == (DEFAULT_INIT_FILE :> live)
                          @@ (Path(TRUE, <<"a">> \o DEFAULT_INIT_FILE.comps) :> image)
             IN  ini = [pc |-> "call", root_path |-> root, locale |-> locale,
                        unicode |-> unicode, before |-> files, files |-> files,
                        ret |-> "", output |-> ""]

NextLocale == SetLocaleOpen \/ SetLocaleRewrite

SpecLocale == InitLocale /\ [][NextLocale]_vars

\* C30: after set_locale returned Ok, etc/default/init under the root holds
\* exactly one line that sets LANG, that line is LANG=<locale written>,
\* whatever the file held before, and the lines that do not set LANG are
\* the ones the file held before, in their order.
C30_OneLangLine ==
    (ini # <<>> /\ ini.pc = "done" /\ ini.ret = "Ok") =>
        LET t == Path(TRUE, PathOf[ini.root_path].comps \o DEFAULT_INIT_FILE.comps)
            SetsLANG(line) == Len(line) >= 5 /\ SubSeq(line, 1, 5) = <<"L", "A", "N", "G", "=">>
            Others(lines) == SelectSeq(lines, LAMBDA l : ~SetsLANG(l))
            now == ini.files[t].lines
        IN  /\ ini.files[t].exists
            /\ Cardinality({i \in 1..Len(now) : SetsLANG(now[i])}) = 1
            /\ \A i \in 1..Len(now) :
                  SetsLANG(now[i]) =>
                      now[i] = <<"L", "A", "N", "G", "=">> \o LocaleWritten(ini.locale, ini.unicode)
            /\ Others(now) = Others(ini.before[t].lines)

\* The file of the running system held no LANG line: set_locale returns Ok
\* with "success", and the file still holds none.
C30_NoLangLineAdded ==
    /\ ini # <<>>
    /\ ini.pc = "done"
    /\ ini.ret = "Ok"
    /\ ini.output = "success"
    /\ ini.root_path = "/"
    /\ Len(ini.before[DEFAULT_INIT_FILE].lines) = 2
    /\ \A i \in 1..2 : ~StartsWithLANG(ini.before[DEFAULT_INIT_FILE].lines[i])
    /\ ini.files = ini.before

====
